---- MODULE Spec2Model ----
(***************************************************************************)
(* Research brief generator: the seven-stage workflow of                   *)
(* app/graph.py (ResearchBriefGraph), the research search tool of          *)
(* app/tools.py (ResearchSearchTool) and the user-context store of         *)
(* app/database.py (DatabaseManager.update_user_context).                  *)
(*                                                                         *)
(* Optional slots (Optional[...] = None in app/schemas.py) are sequences   *)
(* of length at most one: <<>> is None, <<v>> holds v.  Scores in [0,1]    *)
(* are kept in tenths (0.6 is 6).  An error-list entry is the prefix the   *)
(* stage writes in front of str(e).                                        *)
(***************************************************************************)
EXTENDS Integers, Sequences, FiniteSets, TLC

VARIABLES
    pc,               \* position of run(): idle, a node name, END, done
    topic,            \* GraphState.topic
    depth,            \* GraphState.depth
    user_id,          \* GraphState.user_id
    follow_up,        \* GraphState.follow_up
    current_step,     \* GraphState.current_step
    context_summary,  \* GraphState.context_summary (optional)
    research_plan,    \* GraphState.research_plan (optional)
    search_results,   \* GraphState.search_results
    source_summaries, \* GraphState.source_summaries
    final_brief,      \* GraphState.final_brief (optional)
    errors,           \* GraphState.errors
    token_usage,      \* GraphState.token_usage
    executed,         \* the nodes the engine has run, in order
    raised,           \* the collaborator calls that raised in this run
    escaped,          \* an exception left a node (ainvoke raises)
    outcome,          \* what run() returned or raised
    briefs,           \* table briefs, oldest first
    user_contexts,    \* table user_contexts, keyed by user_id
    tool,             \* ResearchSearchTool._run in progress
    sessions,         \* the database sessions of update_user_context calls
    brief_queries,    \* the get_user_briefs calls of this run, in order
    invoked,          \* the collaborator calls of this run, in order
    handed,           \* the context summary each completion call was handed
    fetching,         \* SearchAndFetchTool._run in progress
    first_run,        \* the terminal state of the run before this one (optional)
    constructed,      \* the ResearchPlan(...) call made last (optional)
    token_runs,       \* the completion calls and token mapping of concurrent runs
    context_rows,     \* table user_contexts as a list of rows
    extracted,        \* the page ContentFetcherTool parsed last and its content (optional)
    http_log          \* the requests the API answered, with the responses

runVars == <<pc, topic, depth, user_id, follow_up, current_step, context_summary,
             research_plan, search_results, source_summaries, final_brief, errors,
             token_usage, executed, raised, escaped, outcome, brief_queries,
             invoked, handed>>
dbVars == <<briefs, user_contexts>>
otherVars == <<fetching, first_run, constructed, token_runs, context_rows, extracted,
               http_log>>
vars == <<runVars, dbVars, tool, sessions, otherVars>>

(***************************************************************************)
(* Bounds of the model                                                     *)
(***************************************************************************)
\* the longest result list a search hands the workflow
MaxResults == 2
\* the tokens one completion call counts (words of prompt and response)
CallTokens == 1
\* the distinct URLs the search provider knows
NumUrls == 2
\* the largest MAX_SEARCH_RESULTS tried besides the default
MaxConfigured == 2
\* the longest topic list a user's record holds before concurrent updates
MaxEarlierTopics == 1
\* the update_user_context calls made one after the other
MaxCalls == 11
\* the largest max_results one search-and-fetch call is given
MaxHits == 2
\* the most tokens one stage has counted when Synthesis starts
MaxTokens == 2
\* the most steps a constructed research plan has
MaxSteps == 2
\* the update_user_context calls whose topic and depth are both kept
MaxRepeats == 3

Topics == {"ai", "ml"}
Users == {"u1"}
Depths == 1..5
None == <<>>
Some(v) == <<v>>

Min(a, b) == IF a < b THEN a ELSE b
Max(a, b) == IF a < b THEN b ELSE a

RECURSIVE SumSeq(_)
SumSeq(s) == IF s = <<>> THEN 0 ELSE Head(s) + SumSeq(Tail(s))

(***************************************************************************)
(* app/schemas.py                                                          *)
(***************************************************************************)
\* ResearchPlan.depth: Field(..., ge=1, le=5)
PlanDepthValid(d) == d >= 1 /\ d <= 5

\* SourceMetadata.url: HttpUrl accepts only absolute http(s) URLs
HttpUrls == {"https://example.com/research"}
UrlStrings == HttpUrls \cup {"ftp://example.com/file"}
IsHttpUrl(u) == u \in HttpUrls

\* ResearchPlan.total_estimated_time, recomputed from the steps
RECURSIVE StepTimes(_)
StepTimes(steps) ==
    IF steps = <<>> THEN <<>>
    ELSE <<Head(steps).estimated_time>> \o StepTimes(Tail(steps))
total_estimated_time(plan) == SumSeq(StepTimes(plan.steps))

\* GraphState(topic, depth, user_id, follow_up) with every default
EmptyTokenUsage == [planning |-> 0, summarization |-> 0, synthesis |-> 0]

(***************************************************************************)
(* The workflow graph                                                      *)
(***************************************************************************)
EntryPoint == "context_summarization"

EdgesSkipSearch ==
    { <<"context_summarization", "planning">>,
      <<"planning", "search">>,
      <<"planning", "content_fetching">>,
      <<"search", "content_fetching">>,
      <<"content_fetching", "per_source_summarization">>,
      <<"per_source_summarization", "synthesis">>,
      <<"synthesis", "post_processing">>,
      <<"post_processing", "END">> }

Edges ==
    { <<"context_summarization", "planning">>,
      <<"planning", "search">>,
      <<"search", "content_fetching">>,
      <<"content_fetching", "per_source_summarization">>,
      <<"per_source_summarization", "synthesis">>,
      <<"synthesis", "post_processing">>,
      <<"post_processing", "END">> }

Successors(n) == { e[2] : e \in { x \in Edges : x[1] = n } }

StageOrder ==
    << "context_summarization", "planning", "search", "content_fetching",
       "per_source_summarization", "synthesis", "post_processing" >>

\* the engine runs `node`, then follows an edge out of it; an exception
\* that leaves the node ends ainvoke
Advance(node, esc) ==
    /\ executed' = Append(executed, node)
    /\ escaped' = esc
    /\ IF esc THEN pc' = "END" ELSE \E nxt \in Successors(node) : pc' = nxt

(***************************************************************************)
(* Collaborators: what they hand back when they do not raise               *)
(***************************************************************************)
\* the single-step plan of graph.py:111-126 and graph.py:230-245
FallbackPlan(t, d) ==
    [ topic |-> t, depth |-> d,
      steps |-> << [step_id |-> 1, priority |-> 5, estimated_time |-> 30] >> ]

\* SimpleLLMManager.generate_research_plan: the plan parsed from the
\* completion (the prompt's template echoes topic and depth), or its own
\* one-step plan when the completion does not parse; ResearchPlan accepts
\* neither for a depth outside 1..5, and the call raises
LlmPlans(t, d) ==
    IF PlanDepthValid(d)
    THEN { [ topic |-> t, depth |-> d,
             steps |-> << [step_id |-> 1, priority |-> 5, estimated_time |-> 45],
                          [step_id |-> 2, priority |-> 4, estimated_time |-> 60] >> ],
           FallbackPlan(t, d) }
    ELSE {}

\* DatabaseManager.get_user_briefs: the user's briefs, newest first, at most limit
RECURSIVE NewestFirst(_, _)
NewestFirst(rows, u) ==
    IF rows = <<>> THEN <<>>
    ELSE LET r == rows[Len(rows)]
             rest == NewestFirst(SubSeq(rows, 1, Len(rows) - 1), u)
         IN IF r.user_id = u THEN <<r>> \o rest ELSE rest

get_user_briefs(rows, u, limit) ==
    LET all == NewestFirst(rows, u) IN SubSeq(all, 1, Min(limit, Len(all)))

RECURSIVE TopicsOf(_)
TopicsOf(rows) ==
    IF rows = <<>> THEN <<>> ELSE <<Head(rows).topic>> \o TopicsOf(Tail(rows))

\* SimpleLLMManager.summarize_context
summarize_context(u, previous_briefs) ==
    [ user_id |-> u,
      previous_topics |-> TopicsOf(SubSeq(previous_briefs, 1, Min(3, Len(previous_briefs)))),
      preferred_depth |-> 3,
      context_relevance_score |-> 5 ]

\* graph.py:76-83 with the default depth in place of the requested one
MinimalContextDefaultDepth(u, d) ==
    [ user_id |-> u, previous_topics |-> <<>>, preferred_depth |-> 3,
      context_relevance_score |-> 0 ]

\* graph.py:76-83 with the topics of the user's stored briefs
MinimalContextFromHistory(u, d) ==
    [ user_id |-> u, previous_topics |-> TopicsOf(get_user_briefs(briefs, u, 5)),
      preferred_depth |-> d, context_relevance_score |-> 0 ]

\* the zero-history summary of graph.py:76-83
MinimalContext(u, d) ==
    [ user_id |-> u, previous_topics |-> <<>>, preferred_depth |-> d,
      context_relevance_score |-> 0 ]

\* what a search hands the workflow: {"search_result": ..., "content": ...}
FetchRecords ==
    { [success |-> TRUE, content |-> "page text"],
      [success |-> TRUE, content |-> ""],
      [success |-> FALSE, content |-> "Content could not be fetched"] }

Payloads == { None } \cup { Some([url |-> u, snippet |-> "snippet"]) : u \in UrlStrings }

SearchEntries == { [search_result |-> p, content |-> c] : p \in Payloads, c \in FetchRecords }

RECURSIVE SeqsUpTo(_, _)
SeqsUpTo(S, n) ==
    IF n = 0 THEN { <<>> }
    ELSE LET shorter == SeqsUpTo(S, n - 1)
         IN shorter \cup { Append(s, x) : s \in { t \in shorter : Len(t) = n - 1 }, x \in S }

SearchLists == SeqsUpTo(SearchEntries, MaxResults)

(***************************************************************************)
(* app/database.py: the user-context record                                *)
(***************************************************************************)
MaxStoredTopics == 10

Range(s) == { s[i] : i \in 1..Len(s) }

\* previous_topics[:10]
FirstN(s, n) == SubSeq(s, 1, Min(n, Len(s)))

\* previous_topics[-10:]
LastN(s, n) == SubSeq(s, Max(1, Len(s) - n + 1), Len(s))

\* update_user_context that moves a topic it already holds to the end
ContextAfterUpdateMovesToEnd(record, t, d) ==
    IF record # None
    THEN LET previous_topics == record[1].previous_topics
             appended == Append(SelectSeq(previous_topics, LAMBDA x : x # t), t)
         IN Some([previous_topics |-> LastN(appended, MaxStoredTopics),
                  preferred_depth |-> d])
    ELSE Some([previous_topics |-> <<t>>, preferred_depth |-> d])

\* update_user_context on the record the session read (None: no row)
ContextAfterUpdate(record, t, d) ==
    IF record # None
    THEN LET previous_topics == record[1].previous_topics
             appended == IF t \in Range(previous_topics)
                         THEN previous_topics ELSE Append(previous_topics, t)
         IN Some([previous_topics |-> LastN(appended, MaxStoredTopics),
                  preferred_depth |-> d])
    ELSE Some([previous_topics |-> <<t>>, preferred_depth |-> d])

(***************************************************************************)
(* app/graph.py: the per-source loop                                       *)
(***************************************************************************)
FallbackRelevance == 6
FallbackCredibility == 5
CostPerTokenMicro == 30

\* mapping.get(key, default); a mapping is a record, {} the record
\* without fields
Get(mapping, key, default) ==
    IF key \in DOMAIN mapping THEN mapping[key] ELSE default

\* graph.py:183-187 with a test of the content text alone
SourceContentWheneverText(result) ==
    IF Get(Get(result, "content", <<>>), "content", "") # ""
    THEN "content" ELSE "snippet"

\* graph.py:163 and 183-187: fetched content when the content record says
\* success and holds a non-empty text, else the search snippet
SourceContent(result) ==
    LET content_data == Get(result, "content", <<>>) IN
    IF Get(content_data, "success", FALSE) /\ Get(content_data, "content", "") # ""
    THEN "content" ELSE "snippet"

\* graph.py:205-212
FallbackSummary(i, result) ==
    [ source_id |-> i, url |-> result.search_result[1].url, summary |-> "fallback",
      input |-> SourceContent(result),
      relevance_score |-> FallbackRelevance, credibility_score |-> FallbackCredibility ]

\* graph.py:190-201: the summary the completion service returned, with
\* the node's metadata and source id
LlmSummary(i, result) ==
    [ source_id |-> i, url |-> result.search_result[1].url, summary |-> "llm",
      input |-> SourceContent(result),
      relevance_score |-> 8, credibility_score |-> 7 ]

\* graph.py:162-213, from result i on (i counts from 1; enumerate counts
\* from 0).  calls[i] = 0: summarize_source raises for result i;
\* calls[i] = n > 0: it returns, having counted n tokens.  failed: an
\* exception reached the outer handler (SourceMetadata rejected the url).
RECURSIVE SummarizeFromUnguarded(_, _, _, _)
SummarizeFromUnguarded(results, calls, i, acc) ==
    IF i > Len(results) THEN acc
    ELSE LET result == results[i] IN
         IF result.search_result = None
         THEN SummarizeFromUnguarded(results, calls, i + 1, acc)
         ELSE IF ~IsHttpUrl(result.search_result[1].url)
         THEN [acc EXCEPT !.failed = TRUE]
         ELSE IF calls[i] > 0
         THEN SummarizeFromUnguarded(results, calls, i + 1,
                  [acc EXCEPT !.summaries = Append(@, LlmSummary(i - 1, result)),
                              !.tokens = @ + calls[i]])
         ELSE [acc EXCEPT !.failed = TRUE, !.failing = @ \cup {i}]

RECURSIVE SummarizeFrom(_, _, _, _)
SummarizeFrom(results, calls, i, acc) ==
    IF i > Len(results) THEN acc
    ELSE LET result == results[i] IN
         IF result.search_result = None
         THEN SummarizeFrom(results, calls, i + 1, acc)
         ELSE IF ~IsHttpUrl(result.search_result[1].url)
         THEN [acc EXCEPT !.failed = TRUE]
         ELSE IF calls[i] > 0
         THEN SummarizeFrom(results, calls, i + 1,
                  [acc EXCEPT !.summaries = Append(@, LlmSummary(i - 1, result)),
                              !.tokens = @ + calls[i]])
         ELSE SummarizeFrom(results, calls, i + 1,
                  [acc EXCEPT !.summaries = Append(@, FallbackSummary(i - 1, result)),
                              !.failing = @ \cup {i}])

\* graph.py:160-213 with a loop that needs a first result
SummarizeFailsOnEmpty(results, calls) ==
    IF results = <<>>
    THEN [failed |-> TRUE, summaries |-> <<>>, tokens |-> 0, failing |-> {}]
    ELSE SummarizeFrom(results, calls, 1,
                       [failed |-> FALSE, summaries |-> <<>>, tokens |-> 0,
                        failing |-> {}])

Summarize(results, calls) ==
    SummarizeFrom(results, calls, 1,
                  [failed |-> FALSE, summaries |-> <<>>, tokens |-> 0, failing |-> {}])

(***************************************************************************)
(* app/graph.py: the nodes                                                 *)
(***************************************************************************)
\* state.errors = [entry]: the list is replaced, not appended to
RecordedAlone(errs, entry) == <<entry>>

\* a handler that swallows the exception: nothing is appended
RecordedNothing(errs, entry) == errs

\* state.errors.append(entry), in the handler of every node
Recorded(errs, entry) == Append(errs, entry)

\* _context_summarization_node
ContextSummarizationNode ==
    /\ pc = "context_summarization"
    /\ current_step' = "context_summarization"
    /\ \E fault \in {"none", "get_user_briefs", "summarize_context"} :
         IF follow_up /\ fault # "none"
         THEN /\ errors' = Recorded(errors, "Context summarization error")
              /\ raised' = raised \cup {fault}
              /\ brief_queries' = Append(brief_queries, [user_id |-> user_id, limit |-> 5])
              /\ invoked' = invoked \o (IF fault = "get_user_briefs"
                                         THEN <<"get_user_briefs">>
                                         ELSE <<"get_user_briefs", "summarize_context">>)
              /\ UNCHANGED context_summary
         ELSE IF follow_up
         THEN /\ context_summary' =
                    Some(summarize_context(user_id, get_user_briefs(briefs, user_id, 5)))
              /\ brief_queries' = Append(brief_queries, [user_id |-> user_id, limit |-> 5])
              /\ invoked' = invoked \o <<"get_user_briefs", "summarize_context">>
              /\ UNCHANGED <<errors, raised>>
         ELSE IF PlanDepthValid(depth)
         THEN /\ context_summary' = Some(MinimalContext(user_id, depth))
              /\ UNCHANGED <<errors, raised, brief_queries, invoked>>
         ELSE /\ errors' = Recorded(errors, "Context summarization error")
              /\ UNCHANGED <<context_summary, raised, brief_queries, invoked>>
    /\ Advance("context_summarization", FALSE)
    /\ UNCHANGED <<handed, topic, depth, user_id, follow_up, research_plan, search_results,
                   source_summaries, final_brief, token_usage, outcome, dbVars,
                   tool, sessions, otherVars>>

\* _planning_node without the substitute plan of its handler
PlanningOutcomeNoFallback(plan, t, d) ==
    IF plan # None
    THEN [plan |-> plan, error |-> <<>>, escapes |-> FALSE]
    ELSE [plan |-> None, error |-> <<"Planning error">>, escapes |-> FALSE]

\* _planning_node without its try/except
PlanningOutcomeUnguarded(plan, t, d) ==
    IF plan # None
    THEN [plan |-> plan, error |-> <<>>, escapes |-> FALSE]
    ELSE [plan |-> None, error |-> <<>>, escapes |-> TRUE]

\* _planning_node: plan is what generate_research_plan returned, None
\* when it raised
PlanningOutcome(plan, t, d) ==
    IF plan # None
    THEN [plan |-> plan, error |-> <<>>, escapes |-> FALSE]
    ELSE IF PlanDepthValid(d)
    THEN [plan |-> Some(FallbackPlan(t, d)), error |-> <<"Planning error">>,
          escapes |-> FALSE]
    ELSE [plan |-> None, error |-> <<"Planning error">>, escapes |-> TRUE]

\* _planning_node that puts a minimal context summary in an empty slot
PlanningNodeDefaultsContext ==
    /\ pc = "planning"
    /\ current_step' = "planning"
    /\ context_summary' = (IF context_summary = None /\ PlanDepthValid(depth)
                           THEN Some(MinimalContext(user_id, depth))
                           ELSE context_summary)
    /\ \E plan \in {None} \cup { Some(p) : p \in LlmPlans(topic, depth) } :
         LET out == PlanningOutcome(plan, topic, depth) IN
         /\ research_plan' = (IF out.plan # None THEN out.plan ELSE research_plan)
         /\ errors' = errors \o out.error
         /\ raised' = (IF plan = None THEN raised \cup {"generate_research_plan"}
                       ELSE raised)
         /\ token_usage' = (IF plan = None THEN token_usage
                            ELSE [token_usage EXCEPT !.planning = @ + CallTokens])
         /\ invoked' = Append(invoked, "generate_research_plan")
         /\ handed' = Append(handed, [call |-> "generate_research_plan",
                                      context_summary |-> context_summary])
         /\ Advance("planning", out.escapes)
    /\ UNCHANGED <<brief_queries, topic, depth, user_id, follow_up, search_results,
                   source_summaries, final_brief, outcome, dbVars, tool, sessions, otherVars>>

\* _planning_node
PlanningNode ==
    /\ pc = "planning"
    /\ current_step' = "planning"
    /\ \E plan \in {None} \cup { Some(p) : p \in LlmPlans(topic, depth) } :
         LET out == PlanningOutcome(plan, topic, depth) IN
         /\ research_plan' = (IF out.plan # None THEN out.plan ELSE research_plan)
         /\ errors' = errors \o out.error
         /\ raised' = (IF plan = None THEN raised \cup {"generate_research_plan"}
                       ELSE raised)
         /\ token_usage' = (IF plan = None THEN token_usage
                            ELSE [token_usage EXCEPT !.planning = @ + CallTokens])
         /\ invoked' = Append(invoked, "generate_research_plan")
         /\ handed' = Append(handed, [call |-> "generate_research_plan",
                                      context_summary |-> context_summary])
         /\ Advance("planning", out.escapes)
    /\ UNCHANGED <<brief_queries, topic, depth, user_id, follow_up, context_summary, search_results,
                   source_summaries, final_brief, outcome, dbVars, tool, sessions, otherVars>>

\* _search_node
SearchNode ==
    /\ pc = "search"
    /\ current_step' = "search"
    /\ invoked' = Append(invoked, "research_search")
    /\ \E fault \in BOOLEAN :
         IF fault
         THEN /\ errors' = Recorded(errors, "Search error")
              /\ raised' = raised \cup {"research_search"}
              /\ UNCHANGED search_results
         ELSE /\ \E found \in SearchLists : search_results' = found
              /\ UNCHANGED <<errors, raised>>
    /\ Advance("search", FALSE)
    /\ UNCHANGED <<brief_queries, handed, topic, depth, user_id, follow_up, context_summary, research_plan,
                   source_summaries, final_brief, token_usage, outcome, dbVars,
                   tool, sessions, otherVars>>

\* _content_fetching_node as a stage that fetches again and drops the
\* results it cannot fetch
ContentFetchingNodeRefetches ==
    /\ pc = "content_fetching"
    /\ current_step' = "content_fetching"
    /\ search_results' = SelectSeq(search_results, LAMBDA r : r.content.success)
    /\ Advance("content_fetching", FALSE)
    /\ UNCHANGED <<brief_queries, invoked, handed, topic, depth, user_id, follow_up, context_summary,
                   research_plan, source_summaries, final_brief, errors, token_usage,
                   raised, outcome, dbVars, tool, sessions, otherVars>>

\* _content_fetching_node
ContentFetchingNode ==
    /\ pc = "content_fetching"
    /\ current_step' = "content_fetching"
    /\ Advance("content_fetching", FALSE)
    /\ UNCHANGED <<brief_queries, invoked, handed, topic, depth, user_id, follow_up, context_summary, research_plan,
                   search_results, source_summaries, final_brief, errors, token_usage,
                   raised, outcome, dbVars, tool, sessions, otherVars>>

\* _per_source_summarization_node
PerSourceSummarizationNode ==
    /\ pc = "per_source_summarization"
    /\ current_step' = "per_source_summarization"
    /\ \E calls \in [1..Len(search_results) -> {0, CallTokens}] :
         LET out == Summarize(search_results, calls) IN
         /\ source_summaries' = (IF out.failed THEN source_summaries ELSE out.summaries)
         /\ errors' = (IF out.failed THEN Recorded(errors, "Source summarization error")
                       ELSE errors)
         /\ token_usage' = [token_usage EXCEPT !.summarization = @ + out.tokens]
         /\ raised' = raised
                \cup (IF out.failing # {} THEN {"summarize_source"} ELSE {})
                \cup (IF out.failed THEN {"SourceMetadata"} ELSE {})
         /\ invoked' = invoked \o [k \in 1..Len(out.summaries) |-> "summarize_source"]
    /\ Advance("per_source_summarization", FALSE)
    /\ UNCHANGED <<brief_queries, handed, topic, depth, user_id, follow_up, context_summary, research_plan,
                   search_results, final_brief, outcome, dbVars, tool, sessions, otherVars>>

\* llm_simple.py:262-271: the context block of the synthesis prompt, there
\* only when the summary lists previous topics
ContextInfo(context) ==
    IF context # None /\ context[1].previous_topics # <<>>
    THEN Some([ previous_topics |-> context[1].previous_topics,
                preferred_depth |-> context[1].preferred_depth ])
    ELSE None

\* llm_simple.py:273-302: what the synthesis prompt is made of
SynthesisPrompt(t, sources, plan, context) ==
    [ topic |-> t, research_plan |-> plan, context_info |-> ContextInfo(context),
      source_text |-> [i \in 1..Len(sources) |-> sources[i].summary] ]

\* SimpleLLMManager.synthesize_brief: the brief as the service returns it;
\* the findings are the completion's, named by the prompt it answers
LlmBrief(t, sources, plan, context) ==
    [ brief_id |-> "llm", topic |-> t,
      key_findings |-> SynthesisPrompt(t, sources, plan, context),
      sources |-> sources,
      token_usage |-> EmptyTokenUsage, cost_estimate |-> 0 ]

\* the sum of graph.py:267 over the synthesis counter alone
TotalTokensSynthesisOnly(usage) == usage.synthesis

\* graph.py:267: sum(state.token_usage.values()), 0 for an empty mapping
TotalTokens(usage) == usage.planning + usage.summarization + usage.synthesis

\* graph.py:256-269 without the assignment of graph.py:257: the brief
\* keeps the id the completion service gave it
WithMetadataKeepsServiceId(brief, usage) ==
    [ brief EXCEPT !.token_usage = usage,
                   !.cost_estimate = TotalTokens(usage) * CostPerTokenMicro ]

\* graph.py:256-269: the metadata the node writes over the returned brief
WithMetadata(brief, usage) ==
    [ brief EXCEPT !.brief_id = "orchestrator",
                   !.token_usage = usage,
                   !.cost_estimate = TotalTokens(usage) * CostPerTokenMicro ]

\* _synthesis_node, where the synthesis call counts `counted` tokens
Synthesis(counted) ==
    /\ pc = "synthesis"
    /\ current_step' = "synthesis"
    /\ \E fault \in BOOLEAN :
         IF research_plan = None /\ ~PlanDepthValid(depth)
         THEN /\ errors' = Recorded(errors, "Synthesis error")
              /\ UNCHANGED <<research_plan, final_brief, token_usage, raised, invoked,
                             handed>>
         ELSE /\ research_plan' = (IF research_plan = None
                                   THEN Some(FallbackPlan(topic, depth))
                                   ELSE research_plan)
              /\ invoked' = Append(invoked, "synthesize_brief")
              /\ handed' = Append(handed, [call |-> "synthesize_brief",
                                           context_summary |-> context_summary])
              /\ IF fault
                 THEN /\ errors' = Recorded(errors, "Synthesis error")
                      /\ raised' = raised \cup {"synthesize_brief"}
                      /\ UNCHANGED <<final_brief, token_usage>>
                 ELSE /\ token_usage' = [token_usage EXCEPT !.synthesis = @ + counted]
                      /\ final_brief' =
                            Some(WithMetadata(LlmBrief(topic, source_summaries,
                                                       research_plan', context_summary),
                                              token_usage'))
                      /\ UNCHANGED <<errors, raised>>
    /\ Advance("synthesis", FALSE)
    /\ UNCHANGED <<brief_queries, topic, depth, user_id, follow_up, context_summary, search_results,
                   source_summaries, outcome, dbVars, tool, sessions, otherVars>>

\* _synthesis_node with the completion service of the application
SynthesisNode == Synthesis(CallTokens)

\* _post_processing_node with a handler that withdraws the brief
PostProcessingNodeRevokes ==
    /\ pc = "post_processing"
    /\ current_step' = "post_processing"
    /\ \E fault \in {"none", "save_brief", "update_user_context"} :
         IF final_brief = None
         THEN UNCHANGED <<errors, raised, briefs, user_contexts, final_brief, invoked>>
         ELSE /\ briefs' = (IF fault = "save_brief" THEN briefs
                            ELSE Append(briefs, [brief_id |-> final_brief[1].brief_id,
                                                 user_id |-> user_id,
                                                 topic |-> final_brief[1].topic]))
              /\ user_contexts' =
                    (IF fault = "none"
                     THEN [user_contexts EXCEPT
                              ![user_id] = ContextAfterUpdate(@, topic, depth)]
                     ELSE user_contexts)
              /\ errors' = (IF fault = "none" THEN errors
                            ELSE Recorded(errors, "Post-processing error"))
              /\ raised' = (IF fault = "none" THEN raised ELSE raised \cup {fault})
              /\ invoked' = invoked \o (IF fault = "save_brief"
                                         THEN <<"save_brief">>
                                         ELSE <<"save_brief", "update_user_context">>)
              /\ final_brief' = (IF fault = "none" THEN final_brief ELSE None)
    /\ Advance("post_processing", FALSE)
    /\ UNCHANGED <<brief_queries, handed, topic, depth, user_id, follow_up, context_summary,
                   research_plan, search_results, source_summaries, token_usage,
                   outcome, tool, sessions, otherVars>>

\* _post_processing_node with the two store calls each in a try of its own
PostProcessingNodeUpdatesAnyway ==
    /\ pc = "post_processing"
    /\ current_step' = "post_processing"
    /\ \E fault \in {"none", "save_brief", "update_user_context"} :
         IF final_brief = None
         THEN UNCHANGED <<errors, raised, briefs, user_contexts, invoked>>
         ELSE /\ briefs' = (IF fault = "save_brief" THEN briefs
                            ELSE Append(briefs, [brief_id |-> final_brief[1].brief_id,
                                                 user_id |-> user_id,
                                                 topic |-> final_brief[1].topic]))
              /\ user_contexts' =
                    (IF fault # "update_user_context"
                     THEN [user_contexts EXCEPT
                              ![user_id] = ContextAfterUpdate(@, topic, depth)]
                     ELSE user_contexts)
              /\ errors' = (IF fault = "none" THEN errors
                            ELSE Recorded(errors, "Post-processing error"))
              /\ raised' = (IF fault = "none" THEN raised ELSE raised \cup {fault})
              /\ invoked' = invoked \o <<"save_brief", "update_user_context">>
    /\ Advance("post_processing", FALSE)
    /\ UNCHANGED <<brief_queries, handed, topic, depth, user_id, follow_up, context_summary, research_plan,
                   search_results, source_summaries, final_brief, token_usage, outcome,
                   tool, sessions, otherVars>>

\* _post_processing_node
PostProcessingNode ==
    /\ pc = "post_processing"
    /\ current_step' = "post_processing"
    /\ \E fault \in {"none", "save_brief", "update_user_context"} :
         IF final_brief = None
         THEN UNCHANGED <<errors, raised, briefs, user_contexts, invoked>>
         ELSE /\ briefs' = (IF fault = "save_brief" THEN briefs
                            ELSE Append(briefs, [brief_id |-> final_brief[1].brief_id,
                                                 user_id |-> user_id,
                                                 topic |-> final_brief[1].topic]))
              /\ user_contexts' =
                    (IF fault = "none"
                     THEN [user_contexts EXCEPT
                              ![user_id] = ContextAfterUpdate(@, topic, depth)]
                     ELSE user_contexts)
              /\ errors' = (IF fault = "none" THEN errors
                            ELSE Recorded(errors, "Post-processing error"))
              /\ raised' = (IF fault = "none" THEN raised ELSE raised \cup {fault})
              /\ invoked' = invoked \o (IF fault = "save_brief"
                                         THEN <<"save_brief">>
                                         ELSE <<"save_brief", "update_user_context">>)
    /\ Advance("post_processing", FALSE)
    /\ UNCHANGED <<brief_queries, handed, topic, depth, user_id, follow_up, context_summary, research_plan,
                   search_results, source_summaries, final_brief, token_usage, outcome,
                   tool, sessions, otherVars>>

(***************************************************************************)
(* app/graph.py: run()                                                     *)
(***************************************************************************)
\* "; ".join(errors)
RECURSIVE Join(_)
Join(strs) ==
    IF strs = <<>> THEN <<>>
    ELSE IF Len(strs) = 1 THEN strs
    ELSE <<Head(strs), "; ">> \o Join(Tail(strs))

Returned(brief) == [kind |-> "brief", brief |-> brief, message |-> <<>>]

\* raise Exception(text), re-raised by the handler of graph.py:346-347
Failed(text) ==
    [kind |-> "error", brief |-> None,
     message |-> <<"Workflow execution failed: ">> \o text]

\* graph.py:322-347 with every recorded error but the first left out of the message
RunResultFirstErrorOnly(as_mapping, brief, errs, esc) ==
    IF esc THEN Failed(<<"exception from a node">>)
    ELSE IF as_mapping
    THEN IF brief # None THEN Returned(brief)
         ELSE IF errs # <<>> THEN Failed(<<"Workflow errors: ", Head(errs)>>)
         ELSE Failed(<<"Failed to generate brief - no final_brief in state">>)
    ELSE IF errs # <<>> THEN Failed(<<"Workflow errors: ", Head(errs)>>)
         ELSE IF brief # None THEN Returned(brief)
         ELSE Failed(<<"Failed to generate brief - no final_brief in state">>)

\* graph.py:322-347: as_mapping tells whether ainvoke handed the terminal
\* state back as a dict or as a GraphState
RunResult(as_mapping, brief, errs, esc) ==
    IF esc THEN Failed(<<"exception from a node">>)
    ELSE IF as_mapping
    THEN IF brief # None THEN Returned(brief)
         ELSE IF errs # <<>> THEN Failed(<<"Workflow errors: ">> \o Join(errs))
         ELSE Failed(<<"Failed to generate brief - no final_brief in state">>)
    ELSE IF errs # <<>> THEN Failed(<<"Workflow errors: ">> \o Join(errs))
         ELSE IF brief # None THEN Returned(brief)
         ELSE Failed(<<"Failed to generate brief - no final_brief in state">>)

NoOutcome == [kind |-> "none", brief |-> None, message |-> <<>>]

\* run(topic, depth, user_id, follow_up): the initial GraphState, ainvoke
RunStart ==
    /\ pc = "idle"
    /\ \E t \in Topics, d \in Depths, u \in Users, f \in BOOLEAN :
         /\ topic' = t
         /\ depth' = d
         /\ user_id' = u
         /\ follow_up' = f
    /\ pc' = EntryPoint
    /\ UNCHANGED <<brief_queries, invoked, handed, current_step, context_summary, research_plan, search_results,
                   source_summaries, final_brief, errors, token_usage, executed,
                   raised, escaped, outcome, dbVars, tool, sessions, otherVars>>

\* run(): the terminal state is inspected
RunFinish ==
    /\ pc = "END"
    /\ \E as_mapping \in BOOLEAN :
         outcome' = RunResult(as_mapping, final_brief, errors, escaped)
    /\ pc' = "done"
    /\ UNCHANGED <<brief_queries, invoked, handed, topic, depth, user_id, follow_up, current_step, context_summary,
                   research_plan, search_results, source_summaries, final_brief,
                   errors, token_usage, executed, raised, escaped, dbVars, tool,
                   sessions, otherVars>>

(***************************************************************************)
(* The workflow: one run against a store that may hold earlier work        *)
(***************************************************************************)
RunIdle ==
    /\ pc = "idle"
    /\ topic = ""
    /\ depth = 0
    /\ user_id = ""
    /\ follow_up = FALSE
    /\ current_step = ""
    /\ context_summary = None
    /\ research_plan = None
    /\ search_results = <<>>
    /\ source_summaries = <<>>
    /\ final_brief = None
    /\ errors = <<>>
    /\ token_usage = EmptyTokenUsage
    /\ executed = <<>>
    /\ raised = {}
    /\ escaped = FALSE
    /\ outcome = NoOutcome
    /\ brief_queries = <<>>
    /\ invoked = <<>>
    /\ handed = <<>>

IdleTool ==
    [ pc |-> "idle", topic |-> "", depth |-> 0, max_search_results |-> 0,
      issued |-> <<>>, provider_raised |-> <<>>, all_results |-> <<>>,
      returned |-> <<>> ]
ToolIdle == tool = IdleTool
SessionsIdle == sessions = <<>>

IdleFetching ==
    [ pc |-> "idle", query |-> "", max_results |-> 0, provider_raised |-> FALSE,
      search_results |-> <<>>, responses |-> <<>>, outcomes |-> <<>>,
      fetched_results |-> <<>> ]
OthersIdle ==
    /\ fetching = IdleFetching
    /\ first_run = None
    /\ constructed = None
    /\ token_runs = <<>>
    /\ context_rows = <<>>
    /\ extracted = None
    /\ http_log = <<>>

EarlierBriefs == << [brief_id |-> "earlier", user_id |-> "u1", topic |-> "ai"] >>
NoContexts == [u \in Users |-> None]
EarlierContexts ==
    [u \in Users |-> Some([previous_topics |-> <<"ai">>, preferred_depth |-> 3])]

\* an empty store, or the store one earlier run of the user left
Init ==
    /\ RunIdle
    /\ ToolIdle
    /\ SessionsIdle
    /\ OthersIdle
    /\ \E earlier \in BOOLEAN :
         /\ briefs = (IF earlier THEN EarlierBriefs ELSE <<>>)
         /\ user_contexts = (IF earlier THEN EarlierContexts ELSE NoContexts)

Next ==
    \/ RunStart
    \/ ContextSummarizationNode
    \/ PlanningNode
    \/ SearchNode
    \/ ContentFetchingNode
    \/ PerSourceSummarizationNode
    \/ SynthesisNode
    \/ PostProcessingNode
    \/ RunFinish

Spec == Init /\ [][Next]_vars

(***************************************************************************)
(* Properties of the workflow                                              *)
(***************************************************************************)
Finished == pc \in {"END", "done"}

Count(errs, e) == Cardinality({ i \in 1..Len(errs) : errs[i] = e })

\* strs occur in msg, in order
RECURSIVE Embeds(_, _)
Embeds(strs, msg) ==
    IF strs = <<>> THEN TRUE
    ELSE IF msg = <<>> THEN FALSE
    ELSE IF Head(strs) = Head(msg) THEN Embeds(Tail(strs), Tail(msg))
    ELSE Embeds(strs, Tail(msg))

\* C1: the nodes run once each, in the order context_summarization,
\* planning, search, content_fetching, per_source_summarization, synthesis,
\* post_processing, and only then END: at every moment the nodes run so
\* far are a prefix of that order and the node about to run is the next one.
C1_StagesInOrder ==
    /\ Len(executed) <= Len(StageOrder)
    /\ \A i \in 1..Len(executed) : executed[i] = StageOrder[i]
    /\ (pc \notin {"idle", "END", "done"}) => pc = StageOrder[Len(executed) + 1]
    /\ Finished => executed = StageOrder

C1_Witness == pc = "END" /\ Len(executed) = 7

\* C2: a run whose terminal error list is non-empty fails, also when
\* final_brief is set.
C2_ErrorsFailTheRun ==
    (pc = "done" /\ errors # <<>>) => outcome.kind = "error"

\* C3: no exception leaves a node and all seven nodes run, whatever the
\* collaborators raise and whatever errors earlier nodes recorded.
C3_EveryStageRuns ==
    /\ ~escaped
    /\ Finished => Range(executed) = Range(StageOrder)

C3_Witness ==
    /\ pc = "END"
    /\ Len(executed) = 7
    /\ {"get_user_briefs", "generate_research_plan", "research_search",
        "synthesize_brief"} \subseteq raised

\* C4: when run() fails with a non-empty error list, its message holds
\* every recorded error, in recording order.
C4_MessageHoldsEveryError ==
    (pc = "done" /\ outcome.kind = "error" /\ errors # <<>>)
        => Embeds(errors, outcome.message)

C4_Witness ==
    /\ pc = "done"
    /\ outcome.kind = "error"
    /\ final_brief # None
    /\ Len(errors) >= 2

\* C5: once Planning has run the plan slot is set; when plan generation
\* raised it holds the one-step plan (priority 5, 30 minutes, the run's
\* topic and depth) and the error list holds exactly one Planning error.
C5_PlanningAlwaysFillsThePlan ==
    (pc \notin {"idle", "context_summarization", "planning"}) =>
        /\ research_plan # None
        /\ ("generate_research_plan" \in raised) =>
              /\ Len(research_plan[1].steps) = 1
              /\ research_plan[1].steps[1].priority = 5
              /\ research_plan[1].steps[1].estimated_time = 30
              /\ research_plan[1].topic = topic
              /\ research_plan[1].depth = depth
              /\ Count(errors, "Planning error") = 1

C5_Witness ==
    /\ pc = "search"
    /\ "generate_research_plan" \in raised
    /\ research_plan # None

\* the results that carry a search-result payload, in order
RECURSIVE WithPayload(_)
WithPayload(results) ==
    IF results = <<>> THEN <<>>
    ELSE IF Head(results).search_result = None THEN WithPayload(Tail(results))
    ELSE <<Head(results)>> \o WithPayload(Tail(results))

\* C6: after PerSourceSummarization there is one summary per search
\* result that has a payload, in the order of the results; a summary
\* whose summarization call failed carries the scores 0.6 and 0.5.
C6_OneSummaryPerResult ==
    (pc \in {"synthesis", "post_processing", "END", "done"}) =>
        LET kept == WithPayload(search_results) IN
        /\ Len(source_summaries) = Len(kept)
        /\ \A i \in 1..Len(source_summaries) :
              /\ source_summaries[i].url = kept[i].search_result[1].url
              /\ source_summaries[i].summary = "fallback" =>
                    /\ source_summaries[i].relevance_score = 6
                    /\ source_summaries[i].credibility_score = 5

\* s is an initial part of t
IsPrefix(s, t) == Len(s) <= Len(t) /\ SubSeq(t, 1, Len(s)) = s

\* C12: within one run a populated stage-output slot (context_summary,
\* research_plan, search_results, source_summaries, final_brief) is never
\* cleared or reset by a later step, and every step leaves the recorded
\* errors in place, in order, and at most appends to them.
C12_SlotsKeptErrorsOnlyGrow ==
    [][ /\ (context_summary # None => context_summary' = context_summary)
        /\ (research_plan # None => research_plan' = research_plan)
        /\ (search_results # <<>> => search_results' = search_results)
        /\ (source_summaries # <<>> => source_summaries' = source_summaries)
        /\ (final_brief # None => final_brief' = final_brief)
        /\ IsPrefix(errors, errors') ]_vars

C12_Witness ==
    /\ pc = "END"
    /\ context_summary # None
    /\ research_plan # None
    /\ search_results # <<>>
    /\ source_summaries # <<>>
    /\ final_brief # None
    /\ Len(errors) >= 2

\* the stage has run
Past(node) == node \in Range(executed)

\* C13: a stage that recorded its error left a value in its slot: a
\* context summary after a Context summarization error, a plan after a
\* Planning error, a brief after a Synthesis error (the two list slots
\* always hold a list).
C13_FailureLeavesFallback ==
    /\ (Past("context_summarization") /\ Count(errors, "Context summarization error") > 0)
          => context_summary # None
    /\ (Past("planning") /\ Count(errors, "Planning error") > 0)
          => research_plan # None
    /\ (Past("synthesis") /\ Count(errors, "Synthesis error") > 0)
          => final_brief # None

\* C14: when save_brief or update_user_context fails in PostProcessing,
\* one Post-processing error is appended and final_brief stays the brief
\* Synthesis produced: PostProcessing never changes the slot.
C14_PersistenceFailureKeepsBrief ==
    /\ []( (Finished /\ raised \cap {"save_brief", "update_user_context"} # {}) =>
             /\ final_brief # None
             /\ final_brief[1].brief_id = "orchestrator"
             /\ Count(errors, "Post-processing error") = 1
             /\ errors[Len(errors)] = "Post-processing error" )
    /\ [][ pc = "post_processing" => final_brief' = final_brief ]_vars

C14_Witness ==
    /\ pc = "END"
    /\ "update_user_context" \in raised
    /\ final_brief # None
    /\ Len(briefs) > 0 /\ briefs[Len(briefs)].brief_id = "orchestrator"

\* every result that has a payload carries a URL SourceMetadata accepts
EveryUrlAccepted ==
    \A i \in 1..Len(search_results) :
        search_results[i].search_result # None
            => search_results[i].search_result[1].url \in HttpUrls

\* C15: when only summarization calls of individual sources fail,
\* PerSourceSummarization leaves the error list as it found it.
C15_SourceFailureNotRecorded ==
    [][ (pc = "per_source_summarization" /\ EveryUrlAccepted) => errors' = errors ]_vars

C15_Witness ==
    /\ pc = "synthesis"
    /\ "summarize_source" \in raised
    /\ EveryUrlAccepted
    /\ \E i \in 1..Len(source_summaries) : source_summaries[i].summary = "fallback"

\* C16: when the research search raises, search_results stays empty and
\* one Search error is recorded; PerSourceSummarization then yields an
\* empty list and records nothing, and Synthesis still calls
\* synthesize_brief.
C16_SearchFailureTolerated ==
    ("research_search" \in raised) =>
        /\ search_results = <<>>
        /\ Count(errors, "Search error") = 1
        /\ Past("per_source_summarization") =>
              /\ source_summaries = <<>>
              /\ Count(errors, "Source summarization error") = 0
        /\ Finished =>
              /\ Past("synthesis")
              /\ final_brief # None \/ "synthesize_brief" \in raised

C16_Witness ==
    /\ pc = "END"
    /\ "research_search" \in raised
    /\ final_brief # None
    /\ final_brief[1].sources = <<>>

\* C20: a run that is not a follow-up never calls get_user_briefs and
\* sets a summary with no previous topics, relevance 0.0 and the requested
\* depth as preferred depth; a follow-up run calls get_user_briefs once,
\* for its user with limit 5, and (when neither call raises) stores the
\* summary summarize_context builds from the briefs fetched.
C20_ContextSummarization ==
    (Past("context_summarization") /\ pc # "END" /\ pc # "done") =>
        IF follow_up
        THEN /\ brief_queries = << [user_id |-> user_id, limit |-> 5] >>
             /\ (raised \cap {"get_user_briefs", "summarize_context"} = {}) =>
                   /\ context_summary # None
                   /\ context_summary[1].user_id = user_id
                   /\ context_summary[1].previous_topics
                        = TopicsOf(NewestFirst(briefs, user_id))
        ELSE /\ brief_queries = <<>>
             /\ context_summary # None
             /\ context_summary[1].user_id = user_id
             /\ context_summary[1].previous_topics = <<>>
             /\ context_summary[1].context_relevance_score = 0
             /\ context_summary[1].preferred_depth = depth

C20_Witness ==
    /\ pc = "planning"
    /\ follow_up
    /\ context_summary # None
    /\ context_summary[1].previous_topics # <<>>

\* the collaborators of the orchestrator
Collaborators ==
    { "get_user_briefs", "summarize_context", "generate_research_plan",
      "research_search", "summarize_source", "synthesize_brief", "save_brief",
      "update_user_context" }

\* call c was made and call d was made after it
Precedes(calls, c, d) ==
    \E i, j \in 1..Len(calls) : i < j /\ calls[i] = c /\ calls[j] = d

\* C21: in a finished run where no collaborator raised, the search
\* orchestrator, plan generation, brief synthesis, save_brief and
\* update_user_context were each invoked exactly once, summarize_source
\* was invoked once per search result (an entry that carries a
\* search-result payload), and save_brief came before update_user_context.
C21_EachCollaboratorOnce ==
    (Finished /\ raised \cap Collaborators = {}) =>
        /\ \A c \in { "research_search", "generate_research_plan", "synthesize_brief",
                       "save_brief", "update_user_context" } : Count(invoked, c) = 1
        /\ Count(invoked, "summarize_source") = Len(WithPayload(search_results))
        /\ Precedes(invoked, "save_brief", "update_user_context")

\* C23: the brief run() returns carries the id the orchestrator assigned
\* in Synthesis, not the one the completion service returned, and the
\* source summaries of a run have pairwise distinct source ids (the id is
\* kept here as the index of the result alone: the random part may repeat).
C23_OrchestratorIds ==
    /\ (pc = "done" /\ outcome.kind = "brief") =>
            /\ outcome.brief[1].brief_id = "orchestrator"
            /\ outcome.brief[1].brief_id
                  # LlmBrief(topic, source_summaries, research_plan,
                             context_summary).brief_id
    /\ \A i, j \in 1..Len(source_summaries) :
            i # j => source_summaries[i].source_id # source_summaries[j].source_id

C23_Witness ==
    /\ pc = "done"
    /\ outcome.kind = "brief"
    /\ Len(source_summaries) >= 2

\* C25: the ContentFetching stage changes nothing in the run state but
\* the current-stage label: the inputs of the run, every stage-output
\* slot, the error list and the token counters are after it what they
\* were before it.
C25_ContentFetchingOnlyLabels ==
    [][ (pc = "content_fetching") =>
            /\ current_step' = "content_fetching"
            /\ UNCHANGED <<topic, depth, user_id, follow_up, context_summary,
                           research_plan, search_results, source_summaries,
                           final_brief, errors, token_usage>> ]_vars

C25_Witness ==
    /\ pc = "per_source_summarization"
    /\ current_step = "content_fetching"
    /\ Len(search_results) = 2
    /\ ~search_results[1].content.success
    /\ errors # <<>>
    /\ token_usage.planning > 0

\* C27: for the terminal state a run ends in, run() returns the same
\* brief, or fails with the same message, whether the engine hands the
\* state back as a mapping or as a GraphState.
C27_SameOutcomeForBothShapes ==
    (pc = "END") =>
        RunResult(TRUE, final_brief, errors, escaped)
            = RunResult(FALSE, final_brief, errors, escaped)

\* C28: once Synthesis has run, an empty final_brief slot comes with a
\* 'Synthesis error' in the error list, so run() never fails with
\* 'Failed to generate brief - no final_brief in state'.
C28_NoBriefMeansRecordedError ==
    /\ (pc \in {"post_processing", "END", "done"} /\ final_brief = None) =>
            /\ errors # <<>>
            /\ Count(errors, "Synthesis error") >= 1
    /\ (pc = "done") =>
            outcome # Failed(<<"Failed to generate brief - no final_brief in state">>)

C28_Witness ==
    /\ pc = "done"
    /\ final_brief = None
    /\ errors = <<"Synthesis error">>
    /\ outcome = Failed(<<"Workflow errors: ", "Synthesis error">>)

\* C30: when Synthesis is entered the research_plan slot is populated,
\* so its branch that builds a substitute plan is not taken, and the plan
\* the synthesis call was handed is the plan Planning stored: the one
\* generate_research_plan returned, or the fallback plan of Planning when
\* that call raised.
C30_PlanThereBeforeSynthesis ==
    /\ (pc = "synthesis") => research_plan # None
    /\ (Past("planning") /\ "generate_research_plan" \in raised) =>
            research_plan = Some(FallbackPlan(topic, depth))
    /\ (Past("planning") /\ "generate_research_plan" \notin raised /\ research_plan # None) =>
            research_plan[1] \in LlmPlans(topic, depth)
    /\ (Past("synthesis") /\ final_brief # None) =>
            final_brief[1].key_findings.research_plan = research_plan

C30_Witness ==
    /\ pc = "post_processing"
    /\ final_brief # None
    /\ "generate_research_plan" \in raised
    /\ final_brief[1].key_findings.research_plan = Some(FallbackPlan(topic, depth))

\* the store as the run found it
StoreUntouched ==
    \/ briefs = <<>> /\ user_contexts = NoContexts
    \/ briefs = EarlierBriefs /\ user_contexts = EarlierContexts

\* C31: PostProcessing calls save_brief and update_user_context only when
\* final_brief is set; when save_brief fails, update_user_context is not
\* called in that run and the user's context record stays as it was, so
\* the topic of a brief that was not saved is not added to it.
C31_NoContextUpdateWithoutSave ==
    /\ (final_brief = None) =>
            /\ Count(invoked, "save_brief") = 0
            /\ Count(invoked, "update_user_context") = 0
            /\ StoreUntouched
    /\ ("save_brief" \in raised) =>
            /\ Count(invoked, "update_user_context") = 0
            /\ StoreUntouched
    /\ (Count(invoked, "update_user_context") > 0) =>
            Precedes(invoked, "save_brief", "update_user_context")

C31_Witness ==
    /\ pc = "END"
    /\ final_brief # None
    /\ "save_brief" \in raised
    /\ invoked[Len(invoked)] = "save_brief"
    /\ user_contexts = EarlierContexts
    /\ topic = "ml"

\* C36: the context summary ContextSummarization stored (or the empty
\* slot it left) is what plan generation and brief synthesis are handed,
\* and no later stage writes the slot: at every moment of the run the
\* slot holds what each of the two calls was given.
C36_ContextSummaryHandedOn ==
    /\ \A i \in 1..Len(handed) : handed[i].context_summary = context_summary
    /\ Count(invoked, "generate_research_plan") = 1 =>
            \E i \in 1..Len(handed) : handed[i].call = "generate_research_plan"
    /\ Count(invoked, "synthesize_brief") = 1 =>
            \E i \in 1..Len(handed) : handed[i].call = "synthesize_brief"
    /\ (final_brief # None) =>
            final_brief[1].key_findings.context_info = ContextInfo(context_summary)

C36_Witness ==
    /\ pc = "END"
    /\ follow_up
    /\ context_summary # None
    /\ context_summary[1].previous_topics # <<>>
    /\ Len(handed) = 2
    /\ final_brief # None
    /\ final_brief[1].key_findings.context_info # None

(***************************************************************************)
(* app/tools.py: ResearchSearchTool._run                                   *)
(***************************************************************************)
PerQueryCap == 2
DefaultMaxSearchResults == 10

\* settings.max_search_results: the default, or MAX_SEARCH_RESULTS
ConfiguredMax == (1..MaxConfigured) \cup {DefaultMaxSearchResults}

Overview == << "overview", "introduction", "what is" >>
CurrentAnalysis == << "analysis", "research", "recent developments", "current state" >>
DeepResearch ==
    << "comprehensive analysis", "research paper", "detailed study",
       "expert analysis", "latest research" >>

\* tools.py:194-217
Tier(d) ==
    IF d <= 2 THEN Overview ELSE IF d <= 4 THEN CurrentAnalysis ELSE DeepResearch

\* s[:n] for n >= 0
Take(s, n) == SubSeq(s, 1, Min(n, Len(s)))

RECURSIVE WithTopic(_, _)
WithTopic(t, templates) ==
    IF templates = <<>> THEN <<>>
    ELSE << <<t, Head(templates)>> >> \o WithTopic(t, Tail(templates))

\* the loop of tools.py:220 over the whole tier
SelectedQueriesUnsliced(t, d) == WithTopic(t, Tier(d))

\* queries[:depth], tools.py:220
SelectedQueries(t, d) == Take(WithTopic(t, Tier(d)), d)

\* the URL of the provider's k-th page; 0 is the placeholder
\* https://example.com/research of WebSearchTool._run's handler
ProviderUrls == 1..NumUrls
PlaceholderUrl == 0

\* what the provider does for one query: it raises, or returns at most
\* max_results hits
ProviderAnswers ==
    { [raises |-> TRUE, hits |-> <<>>] }
    \cup { [raises |-> FALSE, hits |-> h] : h \in SeqsUpTo(ProviderUrls, PerQueryCap) }

\* SearchAndFetchTool._run with a placeholder whose URL names the query
search_and_fetch_url_per_query(q, answer) ==
    IF answer.raises
    THEN << [url |-> PlaceholderUrl - q, query |-> q, rank |-> 1] >>
    ELSE [ k \in 1..Len(answer.hits) |-> [url |-> answer.hits[k], query |-> q, rank |-> k] ]

\* SearchAndFetchTool._run(query, 2) for the q-th query: one entry per
\* hit of WebSearchTool._run, in hit order
search_and_fetch(q, answer) ==
    IF answer.raises
    THEN << [url |-> PlaceholderUrl, query |-> q, rank |-> 1] >>
    ELSE [ k \in 1..Len(answer.hits) |-> [url |-> answer.hits[k], query |-> q, rank |-> k] ]

\* tools.py:225-231 keeping the last entry of each URL
RECURSIVE UniqueKeepLast(_)
UniqueKeepLast(results) ==
    IF results = <<>> THEN <<>>
    ELSE IF \E i \in 2..Len(results) : results[i].url = Head(results).url
    THEN UniqueKeepLast(Tail(results))
    ELSE <<Head(results)>> \o UniqueKeepLast(Tail(results))

\* tools.py:225-231
RECURSIVE UniqueFrom(_, _)
UniqueFrom(results, seen_urls) ==
    IF results = <<>> THEN <<>>
    ELSE IF Head(results).url \notin seen_urls
    THEN <<Head(results)>> \o UniqueFrom(Tail(results), seen_urls \cup {Head(results).url})
    ELSE UniqueFrom(Tail(results), seen_urls)

\* tools.py:224-233 keeping the last entry of each URL
ReturnedKeepLast(all_results, max) == Take(UniqueKeepLast(all_results), max)

\* tools.py:224-233 without the slice
ReturnedUntruncated(all_results, max) == UniqueFrom(all_results, {})

\* tools.py:224-233
ResearchSearchReturn(all_results, max) == Take(UniqueFrom(all_results, {}), max)

\* _run(topic, depth) is entered
ToolStart ==
    /\ tool.pc = "idle"
    /\ \E t \in Topics, d \in Depths :
         tool' = [tool EXCEPT !.pc = "querying", !.topic = t, !.depth = d]
    /\ UNCHANGED <<runVars, dbVars, sessions, otherVars>>

\* one turn of the loop of tools.py:220-222
ToolQuery ==
    /\ tool.pc = "querying"
    /\ Len(tool.issued) < Len(SelectedQueries(tool.topic, tool.depth))
    /\ \E answer \in ProviderAnswers :
         LET q == Len(tool.issued) + 1 IN
         tool' = [tool EXCEPT
                    !.issued = Append(@, SelectedQueries(tool.topic, tool.depth)[q]),
                    !.provider_raised = Append(@, answer.raises),
                    !.all_results = @ \o search_and_fetch(q, answer)]
    /\ UNCHANGED <<runVars, dbVars, sessions, otherVars>>

\* tools.py:224-233: the loop is over; settings.max_search_results is
\* read here
ToolReturn ==
    /\ tool.pc = "querying"
    /\ Len(tool.issued) = Len(SelectedQueries(tool.topic, tool.depth))
    /\ \E m \in ConfiguredMax :
         tool' = [tool EXCEPT !.pc = "returned",
                              !.max_search_results = m,
                              !.returned = ResearchSearchReturn(tool.all_results, m)]
    /\ UNCHANGED <<runVars, dbVars, sessions, otherVars>>

InitSearch ==
    /\ RunIdle
    /\ ToolIdle
    /\ SessionsIdle
    /\ OthersIdle
    /\ briefs = <<>>
    /\ user_contexts = NoContexts

NextSearch == ToolStart \/ ToolQuery \/ ToolReturn

SpecSearch == InitSearch /\ [][NextSearch]_vars

(***************************************************************************)
(* Properties of the research search                                       *)
(***************************************************************************)
UrlsOf(results) == { results[i].url : i \in 1..Len(results) }

\* position k of results holds the first entry with its URL
FirstOfItsUrl(results, k) == \A m \in 1..(k - 1) : results[m].url # results[k].url

\* where entry e stands in results (an entry is named by query and rank)
PositionIn(results, e) == CHOOSE k \in 1..Len(results) : results[k] = e

\* C7: for depth 1..5 exactly depth queries are issued, all from the tier
\* of that depth (overview, 3 templates, for depth 1-2; current analysis,
\* 4, for depth 3-4; deep research, 5, for depth 5): the first depth
\* templates of the tier, in template order.
C7_DepthQueriesFromOneTier ==
    (tool.pc = "returned") =>
        LET tier == CASE tool.depth \in {1, 2} -> Overview
                      [] tool.depth \in {3, 4} -> CurrentAnalysis
                      [] OTHER -> DeepResearch
        IN /\ Len(Overview) = 3 /\ Len(CurrentAnalysis) = 4 /\ Len(DeepResearch) = 5
           /\ Len(tool.issued) = tool.depth
           /\ \A i \in 1..Len(tool.issued) : tool.issued[i] = <<tool.topic, tier[i]>>

C7_Witness ==
    /\ tool.pc = "returned"
    /\ tool.depth = 1
    /\ tool.issued = << <<tool.topic, "overview">> >>

\* C8: the returned list holds no URL twice; each returned entry is the
\* first entry of the accumulator with its URL; the returned entries
\* stand in the order in which they stand in the accumulator.
C8_UniqueFirstSeen ==
    (tool.pc = "returned") =>
        LET out == tool.returned
            all == tool.all_results
        IN /\ \A i, j \in 1..Len(out) : i # j => out[i].url # out[j].url
           /\ \A i \in 1..Len(out) :
                 \E k \in 1..Len(all) : all[k] = out[i] /\ FirstOfItsUrl(all, k)
           /\ \A i, j \in 1..Len(out) :
                 i < j => PositionIn(all, out[i]) < PositionIn(all, out[j])

C8_Witness ==
    /\ tool.pc = "returned"
    /\ Len(tool.returned) >= 2
    /\ \E i, j \in 1..Len(tool.all_results) :
          /\ i < j
          /\ tool.all_results[i].url = tool.all_results[j].url
          /\ tool.all_results[i].query # tool.all_results[j].query
          /\ tool.all_results[i] \in Range(tool.returned)

\* C9: the returned list is never longer than settings.max_search_results,
\* and it is the prefix of the deduplicated accumulator: it holds the
\* first entry of each of the first distinct URLs, as many as fit.
C9_BoundedPrefix ==
    (tool.pc = "returned") =>
        LET out == tool.returned
            all == tool.all_results
        IN /\ Len(out) <= tool.max_search_results
           /\ Len(out) = Min(tool.max_search_results, Cardinality(UrlsOf(all)))
           /\ \A k \in 1..Len(all) :
                 (FirstOfItsUrl(all, k)
                    /\ Cardinality(UrlsOf(SubSeq(all, 1, k))) <= Len(out))
                 => all[k] \in Range(out)

C9_Witness ==
    /\ tool.pc = "returned"
    /\ Cardinality(UrlsOf(tool.all_results)) > tool.max_search_results
    /\ Len(tool.returned) = tool.max_search_results
    /\ tool.max_search_results >= 2

\* the provider failed on every query issued
EveryQueryFailed ==
    /\ tool.issued # <<>>
    /\ \A q \in 1..Len(tool.issued) : tool.provider_raised[q]

StoredTopics == {"ai", "ml", "db"}
Runs == {1, 2}
TheUser == "u1"

IdleSession == [pc |-> "idle", topic |-> "", depth |-> 0, record |-> None]

\* duplicate-free topic lists, as update_user_context keeps them
EarlierTopicLists ==
    { l \in SeqsUpTo(StoredTopics, MaxEarlierTopics) :
        \A i, j \in 1..Len(l) : i # j => l[i] # l[j] }

\* PostProcessing of run r calls update_user_context(user, topic, depth)
SessionBegin(r) ==
    /\ sessions[r].pc = "idle"
    /\ \E t \in StoredTopics, d \in Depths :
         sessions' = [sessions EXCEPT ![r] = [@ EXCEPT !.pc = "begun", !.topic = t,
                                                        !.depth = d]]
    /\ UNCHANGED <<runVars, dbVars, tool, otherVars>>

\* database.py:179: session.query(UserContext).filter(...).first()
SessionQuery(r) ==
    /\ sessions[r].pc = "begun"
    /\ sessions' = [sessions EXCEPT ![r] = [@ EXCEPT !.pc = "queried",
                                                    !.record = user_contexts[TheUser]]]
    /\ UNCHANGED <<runVars, dbVars, tool, otherVars>>

\* the row after the UPDATE a commit flushes: the session computed
\* `new` from the row `read`, and the UPDATE sets the columns whose value
\* the session changed, leaving the others as `stored` has them
Flushed(stored, read, new) ==
    Some([ previous_topics |->
               IF new[1].previous_topics # read[1].previous_topics
               THEN new[1].previous_topics ELSE stored[1].previous_topics,
           preferred_depth |->
               IF new[1].preferred_depth # read[1].preferred_depth
               THEN new[1].preferred_depth ELSE stored[1].preferred_depth ])

\* database.py:181-200: the new values are computed from the row as it
\* was read; commit flushes an UPDATE of that row, or the INSERT of a new
\* one, which the primary key rejects when the row exists by now
SessionCommit(r) ==
    /\ sessions[r].pc = "queried"
    /\ LET read == sessions[r].record
           new == ContextAfterUpdate(read, sessions[r].topic, sessions[r].depth)
       IN IF read = None /\ user_contexts[TheUser] # None
          THEN /\ sessions' = [sessions EXCEPT ![r] = [@ EXCEPT !.pc = "failed"]]
               /\ UNCHANGED user_contexts
          ELSE /\ user_contexts' =
                     [user_contexts EXCEPT
                        ![TheUser] = IF read = None THEN new ELSE Flushed(@, read, new)]
               /\ sessions' = [sessions EXCEPT ![r] = [@ EXCEPT !.pc = "committed"]]
    /\ UNCHANGED <<runVars, briefs, tool, otherVars>>

InitDb ==
    /\ RunIdle
    /\ ToolIdle
    /\ OthersIdle
    /\ briefs = <<>>
    /\ sessions = [r \in Runs |-> IdleSession]
    /\ \E stored \in {None} \cup { Some([previous_topics |-> l, preferred_depth |-> 3])
                                   : l \in EarlierTopicLists \ {<<>>} } :
         user_contexts = [u \in Users |-> stored]

NextDb == \E r \in Runs : SessionBegin(r) \/ SessionQuery(r) \/ SessionCommit(r)

SpecDb == InitDb /\ [][NextDb]_vars

\* C10: when two runs of one user update the user's context concurrently,
\* neither update fails and the stored topic list holds both runs' topics.
C10_ConcurrentUpdatesBothKept ==
    (\A r \in Runs : sessions[r].pc \in {"committed", "failed"}) =>
        /\ \A r \in Runs : sessions[r].pc = "committed"
        /\ \A r \in Runs :
              sessions[r].topic \in Range(user_contexts[TheUser][1].previous_topics)

(***************************************************************************)
(* app/database.py: update_user_context called again and again for one     *)
(* user, each call finished before the next begins.  sessions holds the    *)
(* closed session of every call, with the topic the call supplied.         *)
(***************************************************************************)
\* a topic no earlier call supplied
FreshTopic(k) == "topic " \o ToString(k)

SuppliedTopics == [k \in 1..Len(sessions) |-> sessions[k].topic]

\* what the next call may supply: a new topic, the topic of the first call
\* or the topic of the call before
NextTopics ==
    {FreshTopic(Len(sessions) + 1)}
    \cup (IF sessions = <<>> THEN {}
          ELSE {sessions[1].topic, sessions[Len(sessions)].topic})

\* update_user_context(user_id, topic, depth), database.py:176-200
UpdateUserContext ==
    /\ Len(sessions) < MaxCalls
    /\ \E t \in NextTopics, d \in Depths :
         /\ user_contexts' =
               [user_contexts EXCEPT ![TheUser] = ContextAfterUpdate(@, t, d)]
         /\ sessions' = Append(sessions, [IdleSession EXCEPT !.pc = "closed",
                                                              !.topic = t])
    /\ UNCHANGED <<runVars, briefs, tool, otherVars>>

InitContext ==
    /\ RunIdle
    /\ ToolIdle
    /\ SessionsIdle
    /\ OthersIdle
    /\ briefs = <<>>
    /\ user_contexts = NoContexts

NextContext == UpdateUserContext

SpecContext == InitContext /\ [][NextContext]_vars

StoredTopicList ==
    IF user_contexts[TheUser] = None THEN <<>>
    ELSE user_contexts[TheUser][1].previous_topics

PairwiseDistinct(s) == \A i, j \in 1..Len(s) : i # j => s[i] # s[j]

\* C11: after any sequence of update_user_context calls for one user the
\* stored topic list has at most 10 entries; after 11 calls (or more) with
\* pairwise distinct topics it holds exactly the 10 topics supplied last,
\* in call order.
C11_TenMostRecentTopics ==
    /\ Len(StoredTopicList) <= 10
    /\ (Len(sessions) >= 11 /\ PairwiseDistinct(SuppliedTopics)) =>
          StoredTopicList = SubSeq(SuppliedTopics, Len(sessions) - 9, Len(sessions))

C11_Witness ==
    /\ Len(sessions) = 11
    /\ PairwiseDistinct(SuppliedTopics)
    /\ Len(StoredTopicList) = 10
    /\ StoredTopicList[1] = sessions[2].topic

(***************************************************************************)
(* app/tools.py: SearchAndFetchTool._run, with WebSearchTool._run and      *)
(* ContentFetcherTool._run.  A text built with an f-string is the sequence *)
(* of its parts, so that a text mentions a query when the query is one of  *)
(* its parts.                                                              *)
(***************************************************************************)
FetchQueries == {"ai overview", "ml overview"}

Mentions(text, query) == query \in Range(text)

\* tools.py:59-66
PlaceholderHit(query) ==
    [ title |-> <<query, " - Research Information">>,
      url |-> <<"https://example.com/research">>,
      snippet |-> <<"Information about ", query, " including key concepts">>,
      domain |-> "example.com" ]

\* tools.py:41-52: the hit made of the provider's item for page k
ProviderHit(k) ==
    [ title |-> <<"title of page ", ToString(k)>>,
      url |-> <<"https://site.org/page/", ToString(k)>>,
      snippet |-> <<"body of page ", ToString(k)>>,
      domain |-> "site.org" ]

\* what ddgs.text(query, max_results) hands back: it raises, or returns
\* at most max_results items, each for a page or without any URL
RawItems == {None} \cup { Some(k) : k \in ProviderUrls }
RawAnswers(max_results) ==
    { [raises |-> TRUE, results |-> <<>>] }
    \cup { [raises |-> FALSE, results |-> r] : r \in SeqsUpTo(RawItems, max_results) }

\* tools.py:38-54: the items that have a URL, in order
RECURSIVE HitsOf(_)
HitsOf(results) ==
    IF results = <<>> THEN <<>>
    ELSE IF Head(results) = None THEN HitsOf(Tail(results))
    ELSE <<ProviderHit(Head(results)[1])>> \o HitsOf(Tail(results))

\* WebSearchTool._run with a handler that returns an empty list
web_search_empty_on_failure(query, answer) ==
    IF answer.raises THEN <<>> ELSE HitsOf(answer.results)

\* WebSearchTool._run(query, max_results)
web_search(query, answer) ==
    IF answer.raises THEN << PlaceholderHit(query) >> ELSE HitsOf(answer.results)

\* tools.py:129: content[:8000]
FetchContentLimit == 8000

\* what requests.get and the parsing of the page come to for one URL: an
\* exception (connection, timeout, HTTP status from raise_for_status,
\* parsing), or the cleaned text of the page, chars characters long
FetchFailures == { "connection error", "timeout", "404 Client Error", "parse error" }
PageChars == { 0, 1, FetchContentLimit, FetchContentLimit + 1 }
FetchResponses ==
    { [kind |-> "error", error |-> e, chars |-> 0] : e \in FetchFailures }
    \cup { [kind |-> "page", error |-> "", chars |-> n] : n \in PageChars }

\* tools.py:129 without the slice
Untruncated(chars) == chars

\* len(content[:8000])
Truncated(chars) == Min(chars, FetchContentLimit)

\* ContentFetcherTool._run(url): the whole body is inside try, and the
\* handler of tools.py:134-142 returns a record for every exception.
\* chars is len(record["content"]) of a fetched page.
ContentFetcherRun(url, response) ==
    IF response.kind = "page"
    THEN [ url |-> url, title |-> "title of the page",
           content |-> (IF response.chars = 0 THEN <<>> ELSE <<"text of the page">>),
           chars |-> Truncated(response.chars),
           content_length |-> response.chars, success |-> TRUE ]
    ELSE [ url |-> url, title |-> "Content Unavailable",
           content |-> <<"Content could not be fetched from ">> \o url
                          \o <<". Error: ", response.error>>,
           content_length |-> 50, success |-> FALSE, error |-> response.error ]

\* tools.py:167-172 leaving out the hits whose fetch failed
FetchedEntrySkipFailed(hit, content) ==
    IF content.success THEN << [search_result |-> hit, content |-> content] >> ELSE <<>>

\* tools.py:167-172: what one turn of the loop appends
FetchedEntry(hit, content) == << [search_result |-> hit, content |-> content] >>

\* _run(query, max_results) is entered
FetchStart ==
    /\ fetching.pc = "idle"
    /\ \E q \in FetchQueries, m \in 1..MaxHits :
         fetching' = [fetching EXCEPT !.pc = "searching", !.query = q, !.max_results = m]
    /\ UNCHANGED <<runVars, dbVars, tool, sessions, first_run, constructed, token_runs,
                   context_rows, extracted, http_log>>

\* tools.py:162: self.search_tool._run(query, max_results)
FetchSearch ==
    /\ fetching.pc = "searching"
    /\ \E answer \in RawAnswers(fetching.max_results) :
         fetching' = [fetching EXCEPT !.pc = "fetching",
                                      !.provider_raised = answer.raises,
                                      !.search_results = web_search(fetching.query, answer)]
    /\ UNCHANGED <<runVars, dbVars, tool, sessions, first_run, constructed, token_runs,
                   context_rows, extracted, http_log>>

\* one turn of the loop of tools.py:166-172: self.fetch_tool._run(result.url)
\* returns a content record, of a success or of a failure
FetchOne ==
    /\ fetching.pc = "fetching"
    /\ Len(fetching.outcomes) < Len(fetching.search_results)
    /\ \E response \in FetchResponses :
         LET hit == fetching.search_results[Len(fetching.outcomes) + 1]
             content == ContentFetcherRun(hit.url, response) IN
         fetching' = [fetching EXCEPT
                        !.responses = Append(@, response),
                        !.outcomes = Append(@, content),
                        !.fetched_results = @ \o FetchedEntry(hit, content)]
    /\ UNCHANGED <<runVars, dbVars, tool, sessions, first_run, constructed, token_runs,
                   context_rows, extracted, http_log>>

\* tools.py:174
FetchReturn ==
    /\ fetching.pc = "fetching"
    /\ Len(fetching.outcomes) = Len(fetching.search_results)
    /\ fetching' = [fetching EXCEPT !.pc = "returned"]
    /\ UNCHANGED <<runVars, dbVars, tool, sessions, first_run, constructed, token_runs,
                   context_rows, extracted, http_log>>

InitFetch ==
    /\ RunIdle
    /\ ToolIdle
    /\ SessionsIdle
    /\ OthersIdle
    /\ briefs = <<>>
    /\ user_contexts = NoContexts

NextFetch == FetchStart \/ FetchSearch \/ FetchOne \/ FetchReturn

SpecFetch == InitFetch /\ [][NextFetch]_vars

\* C17: search-and-fetch returns one entry per search hit, in hit order,
\* each with the content record its fetch returned: a hit whose fetch
\* failed is there with success = FALSE.
C17_EveryHitKept ==
    (fetching.pc = "returned") =>
        /\ Len(fetching.fetched_results) = Len(fetching.search_results)
        /\ \A i \in 1..Len(fetching.search_results) :
              /\ fetching.fetched_results[i].search_result = fetching.search_results[i]
              /\ fetching.fetched_results[i].content = fetching.outcomes[i]
              /\ ~fetching.outcomes[i].success
                    => ~fetching.fetched_results[i].content.success

C17_Witness ==
    /\ fetching.pc = "returned"
    /\ Len(fetching.search_results) = 2
    /\ ~fetching.outcomes[1].success
    /\ fetching.outcomes[2].success

\* C18 as stated: when the provider fails the one hit returned mentions
\* the query in its title and in its URL, and search-and-fetch returns at
\* least one entry for every query.
C18_PlaceholderNamesQueryAlwaysOneEntry ==
    /\ (fetching.pc \in {"fetching", "returned"} /\ fetching.provider_raised) =>
          /\ Len(fetching.search_results) = 1
          /\ Mentions(fetching.search_results[1].title, fetching.query)
          /\ Mentions(fetching.search_results[1].url, fetching.query)
    /\ (fetching.pc = "returned") => Len(fetching.fetched_results) >= 1

\* C18 amended: when the provider fails, WebSearchTool._run returns one
\* hit whose title mentions the query and whose URL is the fixed address
\* https://example.com/research, and search-and-fetch returns one entry,
\* for that hit, for every query on which the provider failed.
C18_PlaceholderOnProviderFailure ==
    /\ (fetching.pc \in {"fetching", "returned"} /\ fetching.provider_raised) =>
          /\ Len(fetching.search_results) = 1
          /\ Mentions(fetching.search_results[1].title, fetching.query)
          /\ fetching.search_results[1].url = <<"https://example.com/research">>
    /\ (fetching.pc = "returned" /\ fetching.provider_raised) =>
          /\ Len(fetching.fetched_results) = 1
          /\ fetching.fetched_results[1].search_result = fetching.search_results[1]

C18_Witness ==
    /\ fetching.pc = "returned"
    /\ fetching.provider_raised
    /\ Len(fetching.fetched_results) = 1
    /\ ~fetching.fetched_results[1].content.success

\* C24: ContentFetcherTool._run returns a record whatever the request and
\* the parsing did: for a connection, timeout, HTTP-status or parse failure
\* the record has success = FALSE and a content text that names the
\* failure, and a fetched page comes back with success = TRUE and at most
\* 8000 characters of content.
C24_FetcherAlwaysReturns ==
    /\ Len(fetching.outcomes) = Len(fetching.responses)
    /\ \A i \in 1..Len(fetching.outcomes) :
          LET record == fetching.outcomes[i]
              response == fetching.responses[i] IN
          /\ record.success <=> response.kind = "page"
          /\ ~record.success =>
                /\ response.error \in FetchFailures
                /\ Mentions(record.content, response.error)
          /\ record.success =>
                /\ record.chars <= 8000
                /\ record.chars <= response.chars

C24_Witness ==
    /\ fetching.pc = "returned"
    /\ Len(fetching.outcomes) = 2
    /\ fetching.responses[1].kind = "error"
    /\ ~fetching.outcomes[1].success
    /\ fetching.responses[2].chars > 8000
    /\ fetching.outcomes[2].chars = 8000

(***************************************************************************)
(* app/graph.py: run() called twice with the same arguments, follow_up     *)
(* False, against collaborators that answer the same call the same way.    *)
(* first_run keeps what the first run ended with; the second run starts    *)
(* from a new GraphState and from the store the first run left.            *)
(***************************************************************************)
TerminalState ==
    [ context_summary |-> context_summary, research_plan |-> research_plan,
      search_results |-> search_results, source_summaries |-> source_summaries,
      final_brief |-> final_brief, errors |-> errors, escaped |-> escaped,
      raised |-> raised, outcome |-> outcome ]

\* the collaborator call raises in this step as it did in the first run
RaisesAsBefore(call) == (call \in raised') <=> (call \in first_run[1].raised)

\* generate_research_plan(topic, depth, context_summary)
SamePlan ==
    (first_run # None /\ context_summary = first_run[1].context_summary) =>
        /\ research_plan' = first_run[1].research_plan
        /\ RaisesAsBefore("generate_research_plan")

\* research_search_tool._arun(topic, depth): in the second run it returns
\* the list, or raises, as in the first
SameSearch ==
    IF first_run # None
    THEN /\ search_results' = first_run[1].search_results
         /\ raised' = raised \cup (first_run[1].raised \cap {"research_search"})
    ELSE TRUE

\* summarize_source(source_content, source_url, topic), result by result
SameSummaries ==
    (first_run # None /\ search_results = first_run[1].search_results) =>
        /\ source_summaries' = first_run[1].source_summaries
        /\ RaisesAsBefore("summarize_source")

\* synthesize_brief(topic, source_summaries, research_plan, context_summary)
SameSynthesis ==
    (/\ first_run # None
     /\ source_summaries = first_run[1].source_summaries
     /\ context_summary = first_run[1].context_summary
     /\ research_plan' = first_run[1].research_plan) =>
        RaisesAsBefore("synthesize_brief")

\* save_brief and update_user_context
SamePersistence ==
    (first_run # None) =>
        /\ RaisesAsBefore("save_brief")
        /\ RaisesAsBefore("update_user_context")

\* ainvoke hands the terminal state back in the same shape
SameReturn ==
    (/\ first_run # None
     /\ (final_brief = None) <=> (first_run[1].final_brief = None)
     /\ errors = first_run[1].errors
     /\ escaped = first_run[1].escaped) =>
        outcome'.kind = first_run[1].outcome.kind

\* the depth both runs are given: the depth is handed on to the
\* collaborators and decides nothing in graph.py
RerunDepths == {3}

\* run(topic, depth, user_id, False)
RunStartNotFollowUp == RunStart /\ ~follow_up' /\ depth' \in RerunDepths

\* the first run is over: run() is called again with the same arguments
RunAgain ==
    /\ pc = "done"
    /\ first_run = None
    /\ first_run' = Some(TerminalState)
    /\ pc' = EntryPoint
    /\ current_step' = ""
    /\ context_summary' = None
    /\ research_plan' = None
    /\ search_results' = <<>>
    /\ source_summaries' = <<>>
    /\ final_brief' = None
    /\ errors' = <<>>
    /\ token_usage' = EmptyTokenUsage
    /\ executed' = <<>>
    /\ raised' = {}
    /\ escaped' = FALSE
    /\ outcome' = NoOutcome
    /\ brief_queries' = <<>>
    /\ invoked' = <<>>
    /\ handed' = <<>>
    /\ UNCHANGED <<topic, depth, user_id, follow_up, dbVars, tool, sessions, fetching,
                   constructed, token_runs, context_rows,
                   extracted, http_log>>

InitRerun == Init

NextRerun ==
    \/ RunStartNotFollowUp
    \/ ContextSummarizationNode
    \/ PlanningNode /\ SamePlan
    \/ SameSearch /\ SearchNode
    \/ ContentFetchingNode
    \/ PerSourceSummarizationNode /\ SameSummaries
    \/ SynthesisNode /\ SameSynthesis
    \/ PostProcessingNode /\ SamePersistence
    \/ RunFinish /\ SameReturn
    \/ RunAgain

SpecRerun == InitRerun /\ [][NextRerun]_vars

SecondRunDone == first_run # None /\ pc = "done"

\* C19: two runs with the same topic, depth and user and follow_up False,
\* against collaborators that answer alike, end alike: when the first
\* returned a brief the second returns a brief with the same topic, the
\* same key findings and as many sources, whatever the first run left in
\* the store.
C19_RerunGivesTheSameBrief ==
    SecondRunDone =>
        /\ outcome.kind = first_run[1].outcome.kind
        /\ (outcome.kind = "brief") =>
              /\ outcome.brief[1].topic = first_run[1].outcome.brief[1].topic
              /\ outcome.brief[1].key_findings
                    = first_run[1].outcome.brief[1].key_findings
              /\ Len(outcome.brief[1].sources)
                    = Len(first_run[1].outcome.brief[1].sources)

C19_Witness ==
    /\ SecondRunDone
    /\ outcome.kind = "brief"
    /\ Len(outcome.brief[1].sources) >= 1
    /\ Len(briefs) >= 2
    /\ user_contexts[user_id] # None

(***************************************************************************)
(* app/graph.py: _synthesis_node over every token mapping it can meet      *)
(***************************************************************************)
TokenCounts == 0..MaxTokens

\* a search result whose url is accepted and whose page was fetched
FetchedEntryOk ==
    [ search_result |-> Some([url |-> "https://example.com/research", snippet |-> "snippet"]),
      content |-> [success |-> TRUE, content |-> "page text"] ]

\* the GraphState at entry to Synthesis of a run without recorded errors:
\* Planning counted p tokens and PerSourceSummarization counted s (a
\* stubbed completion service counts none; without search results no
\* summarization call is made)
AtSynthesis(t, d, p, s) ==
    /\ pc = "synthesis"
    /\ topic = t
    /\ depth = d
    /\ user_id = "u1"
    /\ follow_up = FALSE
    /\ current_step = "per_source_summarization"
    /\ context_summary = Some(MinimalContext("u1", d))
    /\ research_plan = Some(FallbackPlan(t, d))
    /\ search_results = (IF s = 0 THEN <<>> ELSE <<FetchedEntryOk>>)
    /\ source_summaries = (IF s = 0 THEN <<>> ELSE <<LlmSummary(0, FetchedEntryOk)>>)
    /\ final_brief = None
    /\ errors = <<>>
    /\ token_usage = [planning |-> p, summarization |-> s, synthesis |-> 0]
    /\ executed = SubSeq(StageOrder, 1, 5)
    /\ raised = {}
    /\ escaped = FALSE
    /\ outcome = NoOutcome
    /\ brief_queries = <<>>
    /\ invoked = <<"generate_research_plan", "research_search">>
                     \o (IF s = 0 THEN <<>> ELSE <<"summarize_source">>)
    /\ handed = << [call |-> "generate_research_plan",
                    context_summary |-> Some(MinimalContext("u1", d))] >>

InitCost ==
    /\ \E t \in Topics, d \in Depths, p \in TokenCounts, s \in TokenCounts :
         AtSynthesis(t, d, p, s)
    /\ briefs = <<>>
    /\ user_contexts = NoContexts
    /\ ToolIdle
    /\ SessionsIdle
    /\ OthersIdle

\* _synthesis_node with a synthesis call that counts any number of tokens
SynthesisCounted == \E counted \in TokenCounts : Synthesis(counted)

NextCost ==
    \/ SynthesisCounted
    \/ PostProcessingNode
    \/ RunFinish

SpecCost == InitCost /\ [][NextCost]_vars

\* C22: the brief Synthesis stores carries the token-usage mapping of the
\* run state, and its cost estimate is the sum of all the counters times
\* the per-token rate; with no tokens counted the cost is 0.
C22_CostFromAllCounters ==
    final_brief # None =>
        LET brief == final_brief[1] IN
        /\ brief.token_usage = token_usage
        /\ brief.cost_estimate
              = (token_usage.planning + token_usage.summarization
                    + token_usage.synthesis) * CostPerTokenMicro
        /\ (token_usage = EmptyTokenUsage) => brief.cost_estimate = 0

C22_Witness ==
    /\ final_brief # None
    /\ token_usage.planning > 0
    /\ token_usage.summarization > 0
    /\ token_usage.synthesis > 0
    /\ final_brief[1].cost_estimate > token_usage.synthesis * CostPerTokenMicro

(***************************************************************************)
(* app/schemas.py: ResearchPlan(...), from the JSON of the completion      *)
(* service and from the substitute plans.  constructed keeps the keyword   *)
(* total_estimated_time the call was given and the plan it made, with the  *)
(* value plan.total_estimated_time reads.                                  *)
(***************************************************************************)
\* ResearchStep.estimated_time: int, ge=1
StepMinutes == {15, 30}
SuppliedTotals == {None} \cup { Some(m) : m \in {0, 30, 45} }

\* steps as the JSON of the completion service lists them
JsonSteps ==
    { [i \in 1..Len(times) |-> [step_id |-> i, priority |-> 3, estimated_time |-> times[i]]] :
         times \in SeqsUpTo(StepMinutes, MaxSteps) }

\* a ResearchPlan whose total_estimated_time is a stored field
ResearchPlanStoresTotal(t, d, steps, supplied) ==
    [ topic |-> t, depth |-> d, steps |-> steps,
      total_estimated_time |-> (IF supplied = None THEN SumSeq(StepTimes(steps))
                                ELSE supplied[1]) ]

\* ResearchPlan(topic=t, depth=d, steps=steps, total_estimated_time=supplied):
\* total_estimated_time is a computed field, a keyword of that name is an
\* extra input that pydantic ignores
ResearchPlan(t, d, steps, supplied) ==
    [ topic |-> t, depth |-> d, steps |-> steps,
      total_estimated_time |-> total_estimated_time([steps |-> steps]) ]

\* llm_simple.py:112-113: ResearchPlan(**plan_data)
ConstructFromJson ==
    /\ \E t \in Topics, d \in Depths, steps \in JsonSteps, supplied \in SuppliedTotals :
         constructed' = Some([ supplied |-> supplied,
                               plan |-> ResearchPlan(t, d, steps, supplied) ])
    /\ UNCHANGED <<runVars, dbVars, tool, sessions, fetching, first_run, token_runs,
                   context_rows, extracted, http_log>>

\* graph.py:111-126 (and llm_simple.py:116-130): the substitute plan, built
\* with total_estimated_time=30
ConstructFallback ==
    /\ \E t \in Topics, d \in Depths :
         constructed' = Some([ supplied |-> Some(30),
                               plan |-> ResearchPlan(t, d, FallbackPlan(t, d).steps,
                                                     Some(30)) ])
    /\ UNCHANGED <<runVars, dbVars, tool, sessions, fetching, first_run, token_runs,
                   context_rows, extracted, http_log>>

InitPlan ==
    /\ RunIdle
    /\ ToolIdle
    /\ SessionsIdle
    /\ OthersIdle
    /\ briefs = <<>>
    /\ user_contexts = NoContexts

NextPlan == ConstructFromJson \/ ConstructFallback

SpecPlan == InitPlan /\ [][NextPlan]_vars

\* the estimated times of the steps, added up from the last step back
RECURSIVE MinutesOf(_)
MinutesOf(steps) ==
    IF steps = <<>> THEN 0
    ELSE steps[Len(steps)].estimated_time + MinutesOf(SubSeq(steps, 1, Len(steps) - 1))

\* C26: the total estimated time of a ResearchPlan is the sum of the
\* estimated times of its steps, whatever total_estimated_time the
\* constructor was given, for a plan from the JSON of the completion
\* service and for the fallback plan.
C26_TotalIsSumOfSteps ==
    constructed # None =>
        constructed[1].plan.total_estimated_time = MinutesOf(constructed[1].plan.steps)

C26_Witness ==
    /\ constructed # None
    /\ Len(constructed[1].plan.steps) = 2
    /\ constructed[1].supplied # None
    /\ constructed[1].supplied[1] # MinutesOf(constructed[1].plan.steps)
    /\ constructed[1].plan.total_estimated_time = 45

(***************************************************************************)
(* app/graph.py: _per_source_summarization_node over every shape of entry  *)
(* it reads with .get: a content record may be missing, empty, or lack     *)
(* one of its keys.                                                        *)
(***************************************************************************)
ContentRecords ==
    FetchRecords
    \cup { <<>>, [success |-> TRUE], [content |-> "page text"] }

AcceptedPayload == Some([url |-> "https://example.com/research", snippet |-> "snippet"])

AnyEntries ==
    { [search_result |-> AcceptedPayload, content |-> c] : c \in ContentRecords }
    \cup { [search_result |-> AcceptedPayload] }

\* the GraphState at entry to PerSourceSummarization of a run without
\* recorded errors
AtSummarization(t, d, plan, results) ==
    /\ pc = "per_source_summarization"
    /\ topic = t
    /\ depth = d
    /\ user_id = "u1"
    /\ follow_up = FALSE
    /\ current_step = "content_fetching"
    /\ context_summary = Some(MinimalContext("u1", d))
    /\ research_plan = Some(plan)
    /\ search_results = results
    /\ source_summaries = <<>>
    /\ final_brief = None
    /\ errors = <<>>
    /\ token_usage = [EmptyTokenUsage EXCEPT !.planning = CallTokens]
    /\ executed = SubSeq(StageOrder, 1, 4)
    /\ raised = {}
    /\ escaped = FALSE
    /\ outcome = NoOutcome
    /\ brief_queries = <<>>
    /\ invoked = <<"generate_research_plan", "research_search">>
    /\ handed = << [call |-> "generate_research_plan",
                    context_summary |-> Some(MinimalContext("u1", d))] >>

InitSource ==
    /\ \E t \in Topics, d \in RerunDepths, results \in SeqsUpTo(AnyEntries, MaxResults) :
         \E plan \in LlmPlans(t, d) : AtSummarization(t, d, plan, results)
    /\ briefs = <<>>
    /\ user_contexts = NoContexts
    /\ ToolIdle
    /\ SessionsIdle
    /\ OthersIdle

NextSource ==
    \/ PerSourceSummarizationNode
    \/ SynthesisNode

SpecSource == InitSource /\ [][NextSource]_vars

\* the entry has a content record that says success and holds a text
FetchedWithText(entry) ==
    /\ "content" \in DOMAIN entry
    /\ "success" \in DOMAIN entry.content
    /\ entry.content.success
    /\ "content" \in DOMAIN entry.content
    /\ entry.content.content # ""

\* C29: the text handed to the summarization call of a search result is
\* the fetched content exactly when the result's content record has
\* success = TRUE and a non-empty content; when the fetch failed, the
\* content is empty or there is no content record, it is the snippet.
C29_ContentOrSnippet ==
    (pc \in {"synthesis", "post_processing"}) =>
        /\ Len(source_summaries) = Len(search_results)
        /\ \A i \in 1..Len(source_summaries) :
              /\ source_summaries[i].input \in {"content", "snippet"}
              /\ source_summaries[i].input = "content"
                    <=> FetchedWithText(search_results[i])

C29_Witness ==
    /\ pc = "synthesis"
    /\ Len(source_summaries) = 2
    /\ "content" \notin DOMAIN search_results[1]
    /\ source_summaries[1].input = "snippet"
    /\ FetchedWithText(search_results[2])
    /\ source_summaries[2].input = "content"

(***************************************************************************)
(* app/tools.py: ResearchSearchTool._run against a provider that knows     *)
(* pages of its own for every query and honours max_results                *)
(***************************************************************************)
\* the k-th page the provider has for the q-th query
PageOf(q, k) == 10 * q + k

\* a per-query cap that grows with the depth
RequestedCapByDepth(d) == d

\* tools.py:221: max_results=2, whatever the depth
RequestedCap(d) == PerQueryCap

\* what the provider does with the q-th query under max_results = cap: it
\* raises, returns the first n <= cap pages of the query, or returns a
\* page of the first query again
CappedAnswers(q, cap) ==
    { [raises |-> TRUE, hits |-> <<>>] }
    \cup { [raises |-> FALSE, hits |-> [k \in 1..n |-> PageOf(q, k)]] : n \in 0..cap }
    \cup { [raises |-> FALSE, hits |-> <<PageOf(1, 1)>>] }

\* one turn of the loop of tools.py:220-222
ToolQueryCapped ==
    /\ tool.pc = "querying"
    /\ Len(tool.issued) < Len(SelectedQueries(tool.topic, tool.depth))
    /\ LET q == Len(tool.issued) + 1 IN
       \E answer \in CappedAnswers(q, RequestedCap(tool.depth)) :
         tool' = [tool EXCEPT
                    !.issued = Append(@, SelectedQueries(tool.topic, tool.depth)[q]),
                    !.provider_raised = Append(@, answer.raises),
                    !.all_results = @ \o search_and_fetch(q, answer)]
    /\ UNCHANGED <<runVars, dbVars, sessions, otherVars>>

NextCap == ToolStart \/ ToolQueryCapped \/ ToolReturn

SpecCap == InitSearch /\ [][NextCap]_vars

\* the entries the q-th query added to the accumulator
EntriesOfQuery(q) ==
    { i \in 1..Len(tool.all_results) : tool.all_results[i].query = q }

\* C33: every query of a research search is issued with the cap 2, so
\* with a provider that honours the cap each query adds at most 2 entries
\* and the tool returns at most 2 * depth entries; for a depth in 1..5 and
\* the default maximum of 10 the final slice drops no deduplicated result.
C33_CapKeepsEveryResult ==
    /\ \A q \in 1..Len(tool.issued) : Cardinality(EntriesOfQuery(q)) <= 2
    /\ (tool.pc = "returned") =>
          /\ Len(tool.returned) <= 2 * tool.depth
          /\ (tool.max_search_results = 10) =>
                tool.returned = UniqueFrom(tool.all_results, {})

C33_Witness ==
    /\ tool.pc = "returned"
    /\ tool.depth = 5
    /\ tool.max_search_results = 10
    /\ Len(tool.returned) = 10

(***************************************************************************)
(* app/database.py: update_user_context called a few times for one user,   *)
(* with topics that come back.  Each closed session keeps the topic and    *)
(* the depth of its call and the record it read.                           *)
(***************************************************************************)
UpdateUserContextAgain ==
    /\ Len(sessions) < MaxRepeats
    /\ \E t \in StoredTopics, d \in Depths :
         /\ user_contexts' =
               [user_contexts EXCEPT ![TheUser] = ContextAfterUpdate(@, t, d)]
         /\ sessions' = Append(sessions, [pc |-> "closed", topic |-> t, depth |-> d,
                                          record |-> user_contexts[TheUser]])
    /\ UNCHANGED <<runVars, briefs, tool, otherVars>>

NextRepeat == UpdateUserContextAgain

SpecRepeat == InitContext /\ [][NextRepeat]_vars

\* C34: update_user_context called with a topic the user's record already
\* holds leaves the topic list as it was, contents and order (the topic is
\* not moved to the most recent place), and stores the depth of the call
\* as preferred depth.
C34_KnownTopicKeepsTheList ==
    sessions # <<>> =>
        LET call == sessions[Len(sessions)] IN
        (call.record # None /\ call.topic \in Range(call.record[1].previous_topics)) =>
            /\ user_contexts[TheUser] # None
            /\ user_contexts[TheUser][1].previous_topics
                  = call.record[1].previous_topics
            /\ user_contexts[TheUser][1].preferred_depth = call.depth

C34_Witness ==
    /\ Len(sessions) = 3
    /\ sessions[3].record = Some([previous_topics |-> <<"ai", "ml">>, preferred_depth |-> 2])
    /\ sessions[3].topic = "ai"
    /\ sessions[3].depth = 4
    /\ user_contexts[TheUser]
          = Some([previous_topics |-> <<"ai", "ml">>, preferred_depth |-> 4])

(***************************************************************************)
(* app/graph.py: run() called with any integer depth.  GraphState.depth    *)
(* has no range; ContextSummary.preferred_depth and ResearchPlan.depth     *)
(* accept 1..5 only.                                                       *)
(***************************************************************************)
AnyDepths == RerunDepths \cup {0, 6}

RunStartAnyDepth ==
    /\ pc = "idle"
    /\ \E t \in Topics, d \in AnyDepths, u \in Users, f \in BOOLEAN :
         /\ topic' = t
         /\ depth' = d
         /\ user_id' = u
         /\ follow_up' = f
    /\ pc' = EntryPoint
    /\ UNCHANGED <<brief_queries, invoked, handed, current_step, context_summary, research_plan,
                   search_results, source_summaries, final_brief, errors, token_usage,
                   executed, raised, escaped, outcome, dbVars, tool, sessions, otherVars>>

NextDepth ==
    \/ RunStartAnyDepth
    \/ ContextSummarizationNode
    \/ PlanningNode
    \/ SearchNode
    \/ ContentFetchingNode
    \/ PerSourceSummarizationNode
    \/ SynthesisNode
    \/ PostProcessingNode
    \/ RunFinish

SpecDepth == Init /\ [][NextDepth]_vars

\* C35: in a run with a depth outside 1..5 every stage returns normally,
\* no fault leaves a stage, and the run ends with a returned brief or
\* with the failure built from the recorded errors.
C35_AnyDepthNoEscape ==
    (pc # "idle" /\ ~PlanDepthValid(depth)) =>
        /\ ~escaped
        /\ (pc = "END") => Len(executed) = Len(StageOrder)
        /\ (pc = "done") =>
              \/ outcome.kind = "brief"
              \/ /\ errors # <<>>
                 /\ outcome = Failed(<<"Workflow errors: ">> \o Join(errors))

\* ---------------------------------------------------------------------
\* app/llm_simple.py: the token counters of runs executing concurrently
\* ---------------------------------------------------------------------

\* main.py:124: every request awaits its own research_graph.run(...)
ConcurrentRuns == {1, 2}

\* llm_simple.py:107, 209, 307: the keys the completion calls write
Categories == {"planning", "summarization", "synthesis"}

\* a run that no request has started yet
NoRun == [pc |-> "none", pending |-> 0, calls |-> 0, token_usage |-> EmptyTokenUsage]

\* what a completion call counts: nothing when ainvoke raises
\* (llm_simple.py:102, 204, 302), the estimate otherwise
CountedTokens == {0, CallTokens}

\* one mapping shared by the runs: the count lands in every started run
CountTokensShared(runs, r, category, counted) ==
    [q \in ConcurrentRuns |->
        IF q = r
        THEN [runs[q] EXCEPT !.token_usage[category] = @ + counted, !.calls = @ + 1]
        ELSE IF runs[q].pc # "none"
             THEN [runs[q] EXCEPT !.token_usage[category] = @ + counted]
             ELSE runs[q]]

\* llm_simple.py:105-107, 207-209, 305-307: the call adds its estimate to
\* its own key of the mapping it was handed, state.token_usage of run r
CountTokens(runs, r, category, counted) ==
    [runs EXCEPT ![r].token_usage[category] = @ + counted, ![r].calls = @ + 1]

\* graph.py:311-317, schemas.py:122: GraphState(...) gets a mapping of its
\* own from default_factory=dict; sources is the number of search results
\* the run will summarise
ConcurrentRunStart(r) ==
    /\ token_runs[r].pc = "none"
    /\ \E sources \in 0..MaxResults :
          token_runs' = [token_runs EXCEPT ![r] =
              [pc |-> "planning", pending |-> sources, calls |-> 0,
               token_usage |-> EmptyTokenUsage]]
    /\ UNCHANGED <<runVars, dbVars, tool, sessions, fetching, first_run, constructed,
                   context_rows, extracted, http_log>>

\* graph.py:97-102 with llm_simple.py:102-107
ConcurrentPlanningCall(r) ==
    /\ token_runs[r].pc = "planning"
    /\ \E counted \in CountedTokens :
          token_runs' = [CountTokens(token_runs, r, "planning", counted)
                            EXCEPT ![r].pc = "summarization"]
    /\ UNCHANGED <<runVars, dbVars, tool, sessions, fetching, first_run, constructed,
                   context_rows, extracted, http_log>>

\* graph.py:190-195 with llm_simple.py:204-209: one call per search result
ConcurrentSummarizeCall(r) ==
    /\ token_runs[r].pc = "summarization"
    /\ token_runs[r].pending > 0
    /\ \E counted \in CountedTokens :
          token_runs' = [CountTokens(token_runs, r, "summarization", counted)
                            EXCEPT ![r].pending = @ - 1]
    /\ UNCHANGED <<runVars, dbVars, tool, sessions, fetching, first_run, constructed,
                   context_rows, extracted, http_log>>

\* graph.py:248-254 with llm_simple.py:302-307, after the last summary
ConcurrentSynthesisCall(r) ==
    /\ token_runs[r].pc = "summarization"
    /\ token_runs[r].pending = 0
    /\ \E counted \in CountedTokens :
          token_runs' = [CountTokens([token_runs EXCEPT ![r].pc = "synthesis"],
                                     r, "synthesis", counted)
                            EXCEPT ![r].pc = "done"]
    /\ UNCHANGED <<runVars, dbVars, tool, sessions, fetching, first_run, constructed,
                   context_rows, extracted, http_log>>

InitTokens ==
    /\ RunIdle
    /\ ToolIdle
    /\ SessionsIdle
    /\ fetching = IdleFetching
    /\ first_run = None
    /\ constructed = None
    /\ context_rows = <<>>
    /\ extracted = None
    /\ http_log = <<>>
    /\ briefs = <<>>
    /\ user_contexts = NoContexts
    /\ token_runs = [r \in ConcurrentRuns |-> NoRun]

NextTokens ==
    \E r \in ConcurrentRuns :
        \/ ConcurrentRunStart(r)
        \/ ConcurrentPlanningCall(r)
        \/ ConcurrentSummarizeCall(r)
        \/ ConcurrentSynthesisCall(r)

SpecTokens == InitTokens /\ [][NextTokens]_vars

\* the category whose completion call a run makes next
CallingCategory(run) ==
    IF run.pc = "summarization" /\ run.pending = 0 THEN "synthesis" ELSE run.pc

\* C37: in every step each counter of each run stays or grows, and a
\* counter that grows belongs to the category of the completion call
\* that its own run makes in that step; a step of another run leaves the
\* mapping as it was.
C37_CountersAdditiveAndLocal ==
    [][ \A r \in ConcurrentRuns :
          /\ \A c \in Categories :
                /\ token_runs'[r].token_usage[c] >= token_runs[r].token_usage[c]
                /\ token_runs'[r].token_usage[c] # token_runs[r].token_usage[c] =>
                      /\ token_runs'[r].calls = token_runs[r].calls + 1
                      /\ c = CallingCategory(token_runs[r])
          /\ token_runs'[r].calls = token_runs[r].calls =>
                token_runs'[r].token_usage = token_runs[r].token_usage ]_vars

C37_Witness ==
    /\ \A r \in ConcurrentRuns : token_runs[r].pc = "done"
    /\ \A c \in Categories : token_runs[1].token_usage[c] > 0
    /\ token_runs[2].token_usage = EmptyTokenUsage
    /\ token_runs[2].calls > 0

\* ---------------------------------------------------------------------
\* app/database.py: table user_contexts as rows, written by the sessions
\* of save_user_context and update_user_context and read by
\* get_user_context
\* ---------------------------------------------------------------------
RowUsers == {"u1", "u2"}

\* json.dumps of a list of strings, as the pieces of the stored text
RECURSIVE json_dumps_items(_)
json_dumps_items(l) ==
    IF l = <<>> THEN <<>>
    ELSE <<"\"", Head(l), "\"">>
            \o (IF Len(l) = 1 THEN <<>> ELSE <<", ">> \o json_dumps_items(Tail(l)))

json_dumps(l) == <<"[">> \o json_dumps_items(l) \o <<"]">>

\* json.loads of such a text: the strings between the quotes, in order
RECURSIVE json_loads_items(_)
json_loads_items(pieces) ==
    IF Len(pieces) < 3 THEN <<>>
    ELSE <<pieces[2]>> \o json_loads_items(SubSeq(pieces, 5, Len(pieces)))

json_loads(text) == json_loads_items(SubSeq(text, 2, Len(text) - 1))

\* the positions of the rows of one user
RowsOf(rows, u) == { i \in 1..Len(rows) : rows[i].user_id = u }

\* database.py:162, 179: query(UserContext).filter(...).first()
FirstRow(rows, u) ==
    IF RowsOf(rows, u) = {} THEN None
    ELSE Some(rows[CHOOSE i \in RowsOf(rows, u) : \A j \in RowsOf(rows, u) : i <= j])

\* database.py:159-174
get_user_context(rows, u) ==
    LET record == FirstRow(rows, u)
    IN IF record # None
       THEN Some([ user_id |-> record[1].user_id,
                   previous_topics |-> json_loads(record[1].previous_topics),
                   preferred_depth |-> record[1].preferred_depth ])
       ELSE None

\* a table without the key: every INSERT is accepted
PrimaryKeyAcceptsAll(rows, u) == FALSE

\* database.py:42: user_id is the primary key, so the INSERT of a second
\* row for a user is rejected
PrimaryKeyRejects(rows, u) == RowsOf(rows, u) # {}

\* the contexts save_user_context is called with
SavedContexts ==
    { [previous_topics |-> l, preferred_depth |-> 3] : l \in {<<>>, <<"ai", "ml">>} }

IdleRowSession ==
    [ pc |-> "idle", op |-> "", user_id |-> "", topic |-> "", depth |-> 0,
      context |-> None, record |-> None ]

\* database.py:176-178: update_user_context(user_id, topic, depth) opens
\* its session
RowUpdateBegin(r) ==
    /\ sessions[r].pc = "idle"
    /\ \E u \in RowUsers, t \in StoredTopics, d \in Depths :
         sessions' = [sessions EXCEPT ![r] =
             [IdleRowSession EXCEPT !.pc = "begun", !.op = "update", !.user_id = u,
                                    !.topic = t, !.depth = d]]
    /\ UNCHANGED <<runVars, dbVars, tool, fetching, first_run, constructed, token_runs,
                   context_rows, extracted, http_log>>

\* database.py:135-137: save_user_context(context) opens its session
RowSaveBegin(r) ==
    /\ sessions[r].pc = "idle"
    /\ \E u \in RowUsers, c \in SavedContexts :
         sessions' = [sessions EXCEPT ![r] =
             [IdleRowSession EXCEPT !.pc = "begun", !.op = "save", !.user_id = u,
                                    !.context = Some(c)]]
    /\ UNCHANGED <<runVars, dbVars, tool, fetching, first_run, constructed, token_runs,
                   context_rows, extracted, http_log>>

\* database.py:138, 179: the session reads the user's row
RowQuery(r) ==
    /\ sessions[r].pc = "begun"
    /\ sessions' = [sessions EXCEPT ![r] =
           [@ EXCEPT !.pc = "queried",
                     !.record = FirstRow(context_rows, sessions[r].user_id)]]
    /\ UNCHANGED <<runVars, dbVars, tool, fetching, first_run, constructed, token_runs,
                   context_rows, extracted, http_log>>

\* database.py:140-155, 181-198: the column values the session leaves in
\* its record, or in the new object it adds
RowValues(session) ==
    IF session.op = "save"
    THEN [ previous_topics |-> json_dumps(session.context[1].previous_topics),
           preferred_depth |-> session.context[1].preferred_depth ]
    ELSE IF session.record # None
    THEN LET previous_topics == json_loads(session.record[1].previous_topics)
             appended == IF session.topic \in Range(previous_topics)
                         THEN previous_topics ELSE Append(previous_topics, session.topic)
         IN [ previous_topics |-> json_dumps(LastN(appended, MaxStoredTopics)),
              preferred_depth |-> session.depth ]
    ELSE [ previous_topics |-> json_dumps(<<session.topic>>),
           preferred_depth |-> session.depth ]

\* database.py:157, 200: commit flushes the INSERT of the new row, which
\* fails on an existing key, or the UPDATE of the columns whose value the
\* session changed in the row of its user
RowCommit(r) ==
    /\ sessions[r].pc = "queried"
    /\ LET session == sessions[r]
           u == session.user_id
           new == RowValues(session)
       IN IF session.record = None
          THEN IF PrimaryKeyRejects(context_rows, u)
               THEN /\ sessions' = [sessions EXCEPT ![r] = [@ EXCEPT !.pc = "failed"]]
                    /\ UNCHANGED context_rows
               ELSE /\ context_rows' = Append(context_rows,
                            [ user_id |-> u, previous_topics |-> new.previous_topics,
                              preferred_depth |-> new.preferred_depth ])
                    /\ sessions' = [sessions EXCEPT ![r] = [@ EXCEPT !.pc = "committed"]]
          ELSE /\ context_rows' =
                     [ i \in 1..Len(context_rows) |->
                         IF context_rows[i].user_id # u THEN context_rows[i]
                         ELSE [ user_id |-> u,
                                previous_topics |->
                                    IF new.previous_topics # session.record[1].previous_topics
                                    THEN new.previous_topics
                                    ELSE context_rows[i].previous_topics,
                                preferred_depth |->
                                    IF new.preferred_depth # session.record[1].preferred_depth
                                    THEN new.preferred_depth
                                    ELSE context_rows[i].preferred_depth ] ]
               /\ sessions' = [sessions EXCEPT ![r] = [@ EXCEPT !.pc = "committed"]]
    /\ UNCHANGED <<runVars, dbVars, tool, fetching, first_run, constructed, token_runs,
                   extracted, http_log>>

\* Base.metadata.create_all on a new database: the table is empty
InitRows ==
    /\ RunIdle
    /\ ToolIdle
    /\ fetching = IdleFetching
    /\ first_run = None
    /\ constructed = None
    /\ token_runs = <<>>
    /\ extracted = None
    /\ http_log = <<>>
    /\ briefs = <<>>
    /\ user_contexts = NoContexts
    /\ sessions = [r \in Runs |-> IdleRowSession]
    /\ context_rows = <<>>

NextRows ==
    \E r \in Runs : RowUpdateBegin(r) \/ RowSaveBegin(r) \/ RowQuery(r) \/ RowCommit(r)

SpecRows == InitRows /\ [][NextRows]_vars

\* the sessions of a user that have committed
CommittedFor(u) == { r \in Runs : sessions[r].user_id = u /\ sessions[r].pc = "committed" }

\* C38: get_user_context finds nothing for a user for whom no save or
\* update has committed; when the only commit for a user is that of an
\* update_user_context(user, topic, depth), it returns the topic list
\* <<topic>> and the preferred depth depth; and the table never holds two
\* rows of one user.
C38_OneContextRecordPerUser ==
    \A u \in RowUsers :
        /\ CommittedFor(u) = {} => get_user_context(context_rows, u) = None
        /\ \A r \in Runs :
              (CommittedFor(u) = {r} /\ sessions[r].op = "update") =>
                  get_user_context(context_rows, u)
                      = Some([ user_id |-> u,
                               previous_topics |-> <<sessions[r].topic>>,
                               preferred_depth |-> sessions[r].depth ])
        /\ Cardinality(RowsOf(context_rows, u)) <= 1

C38_Witness ==
    /\ CommittedFor("u1") = {1}
    /\ sessions[1].op = "update"
    /\ sessions[2].user_id = "u1"
    /\ sessions[2].pc = "failed"
    /\ get_user_context(context_rows, "u2") = None
    /\ get_user_context(context_rows, "u1") # None
    /\ get_user_context(context_rows, "u1")[1].previous_topics = <<sessions[1].topic>>

\* ---------------------------------------------------------------------
\* app/tools.py: ContentFetcherTool._run, the choice of the content
\* ---------------------------------------------------------------------

\* tools.py:105-108
main_selectors ==
    << "main", "article", "[role=\"main\"]", ".content", ".post-content",
       ".entry-content", ".article-content", ".main-content" >>

\* get_text(separator=' ', strip=True) of the element a selector finds:
\* nothing when the element holds no text
ElementTexts(selector) == { <<>>, <<"text of ", selector>> }

BodyTexts == { <<>>, <<"text of body">> }

\* a parsed page: for every selector the text of the first element it
\* matches (None: it matches no element), and the text of body (None:
\* the document has no body element)
Pages ==
    { [matches |-> m, body |-> b] :
        m \in [1..Len(main_selectors) -> {None, Some(<<>>), Some(<<"text">>)}],
        b \in {None} \cup { Some(t) : t \in BodyTexts } }

\* soup.select_one(selector): the element's text, or None
SelectOne(page, i) ==
    IF page.matches[i] = None THEN None
    ELSE IF page.matches[i][1] = <<>> THEN Some(<<>>)
    ELSE Some(<<"text of ", main_selectors[i]>>)

\* the loop going on to the next selector when the element has no text
RECURSIVE MainContentSkippingEmpty(_, _)
MainContentSkippingEmpty(page, i) ==
    IF i > Len(main_selectors) THEN <<>>
    ELSE IF SelectOne(page, i) # None /\ SelectOne(page, i)[1] # <<>>
         THEN SelectOne(page, i)[1]
         ELSE MainContentSkippingEmpty(page, i + 1)

\* tools.py:110-114: the loop over main_selectors from selector i on,
\* ended by break at the first selector that finds an element
RECURSIVE MainContent(_, _)
MainContent(page, i) ==
    IF i > Len(main_selectors) THEN <<>>
    ELSE IF SelectOne(page, i) # None THEN SelectOne(page, i)[1]
    ELSE MainContent(page, i + 1)

\* ' '.join(content.split()), tools.py:123: the words, without the empty ones
CleanUp(content) == SelectSeq(content, LAMBDA part : part # "")

\* tools.py:102-123
ExtractContent(page) ==
    LET content == MainContent(page, 1)
        with_body == IF content = <<>> /\ page.body # None THEN page.body[1] ELSE content
    IN CleanUp(with_body)

\* ContentFetcherTool._run parses a fetched page
FetcherParses ==
    /\ extracted = None
    /\ \E page \in Pages :
         extracted' = Some([page |-> page, content |-> ExtractContent(page)])
    /\ UNCHANGED <<runVars, dbVars, tool, sessions, fetching, first_run, constructed,
                   token_runs, context_rows, http_log>>

\* the tool is called again
FetcherDone ==
    /\ extracted # None
    /\ extracted' = None
    /\ UNCHANGED <<runVars, dbVars, tool, sessions, fetching, first_run, constructed,
                   token_runs, context_rows, http_log>>

InitSelect ==
    /\ RunIdle
    /\ ToolIdle
    /\ SessionsIdle
    /\ OthersIdle
    /\ briefs = <<>>
    /\ user_contexts = NoContexts

NextSelect == FetcherParses \/ FetcherDone

SpecSelect == InitSelect /\ [][NextSelect]_vars

\* the selectors that match an element of the page
Matching(page) == { i \in 1..Len(main_selectors) : page.matches[i] # None }

FirstMatching(page) == CHOOSE i \in Matching(page) : \A j \in Matching(page) : i <= j

\* C39 as stated: the content is the text of the element of the first
\* selector of the list that matches, and it is the text of body only
\* when no selector matches.
C39_FirstMatchElseBody ==
    (extracted # None) =>
        LET page == extracted[1].page
            content == extracted[1].content IN
        /\ Matching(page) # {} => content = SelectOne(page, FirstMatching(page))[1]
        /\ (content # <<>> /\ content \in BodyTexts) => Matching(page) = {}

\* C39 amended: the content is the text of the element of the first
\* selector of the list that matches, unless that element has no text;
\* the text of body is used when no selector matches and also when the
\* element of the first matching selector has no text, whatever the
\* selectors after it match.
C39_FirstMatchUnlessEmpty ==
    (extracted # None) =>
        LET page == extracted[1].page
            content == extracted[1].content
            first == IF Matching(page) = {} THEN <<>>
                     ELSE SelectOne(page, FirstMatching(page))[1] IN
        IF first # <<>> THEN content = first
        ELSE IF page.body # None THEN content = page.body[1]
        ELSE content = <<>>

C39_Witness ==
    /\ extracted # None
    /\ extracted[1].page.matches[1] = Some(<<>>)
    /\ extracted[1].page.matches[2] = Some(<<"text">>)
    /\ extracted[1].content = <<"text of body">>

\* ---------------------------------------------------------------------
\* app/main.py: GET /brief/{brief_id}
\* ---------------------------------------------------------------------
MaxRequests == 4

\* the ids requests ask for: that of a stored brief and two others
BriefIds == {"earlier", "brief_1", "unknown"}

\* fastapi.HTTPException(status_code=..., detail=...)
HTTPException(status_code, detail) ==
    [class |-> "HTTPException", status_code |-> status_code, detail |-> detail]

\* HTTPException derives from Exception, so `except Exception` takes it
IsException(exc) == exc.class \in {"HTTPException", "Exception"}

\* str(e) of an HTTPException built from keyword arguments: the status
\* and the detail, or nothing, as the installed framework defines it
StrOf(exc) == { <<ToString(exc.status_code), ": ">> \o exc.detail, <<"">> }

\* main.py:167-178: what leaves get_brief; text is str(e) of line 177
get_brief(brief_id, text) ==
    LET not_found == HTTPException(404, <<"Brief not found">>)
    IN IF IsException(not_found)
       THEN HTTPException(500, <<"Failed to retrieve brief: ">> \o text)
       ELSE not_found

\* the response the framework makes of an HTTPException leaving a handler
ResponseOf(exc) == [status_code |-> exc.status_code, detail |-> exc.detail]

\* one request GET /brief/{brief_id}
GetBrief ==
    /\ Len(http_log) < MaxRequests
    /\ \E brief_id \in BriefIds :
         \E text \in StrOf(HTTPException(404, <<"Brief not found">>)) :
            http_log' = Append(http_log,
                [ brief_id |-> brief_id,
                  response |-> ResponseOf(get_brief(brief_id, text)) ])
    /\ UNCHANGED <<runVars, dbVars, tool, sessions, fetching, first_run, constructed,
                   token_runs, context_rows, extracted>>

InitHttp ==
    /\ RunIdle
    /\ ToolIdle
    /\ SessionsIdle
    /\ OthersIdle
    /\ briefs \in {<<>>, EarlierBriefs}
    /\ user_contexts = NoContexts

NextHttp == GetBrief

SpecHttp == InitHttp /\ [][NextHttp]_vars

\* C40: every request GET /brief/{brief_id} is answered with status 404
\* and the detail "Brief not found".
C40_AlwaysNotFound ==
    \A i \in 1..Len(http_log) :
        /\ http_log[i].response.status_code = 404
        /\ http_log[i].response.detail = <<"Brief not found">>

====
